---- MODULE Spec2Model ----
(***************************************************************************)
(* vinw: a terminal file-tree browser (src/main.go) with its tree builder, *)
(* the selection handling of model.Update, the file operations of          *)
(* internal/fileops.go, the ignore-rule matcher and the git change query.  *)
(*                                                                         *)
(* A path relative to the watch root is a sequence of entry names; the     *)
(* root itself is << >>.  The filesystem is a function from the paths that *)
(* exist to what is there: a directory, a directory that cannot be listed  *)
(* (no read permission), an empty file or a file with data.                *)
(***************************************************************************)
EXTENDS Integers, Sequences, FiniteSets, TLC

(***************************************************************************)
(* Bounds of the model.                                                    *)
(***************************************************************************)
MaxExternal == 1     \* filesystem changes made by other processes
MaxGitChanges == 1   \* changes of the repository status made by others
MaxMutations == 2    \* confirmed create/delete operations of the user
MaxRuleLines == 2    \* lines of the root's .gitignore

(***************************************************************************)
(* Entry names, in the byte order in which os.ReadDir returns them.        *)
(***************************************************************************)
NameOrder == <<".env", ".git", ".gitignore", "a.go", "b.go", "c.go", "d.go", "sub">>

Names == {NameOrder[i] : i \in 1..Len(NameOrder)}

Rank(n) == CHOOSE i \in 1..Len(NameOrder) : NameOrder[i] = n

\* The characters of a name, for glob matching.
Chars(n) ==
  CASE n = ".env"       -> <<".", "e", "n", "v">>
    [] n = ".git"       -> <<".", "g", "i", "t">>
    [] n = ".gitignore" -> <<".", "g", "i", "t", "i", "g", "n", "o", "r", "e">>
    [] n = "a.go"       -> <<"a", ".", "g", "o">>
    [] n = "b.go"       -> <<"b", ".", "g", "o">>
    [] n = "c.go"       -> <<"c", ".", "g", "o">>
    [] n = "d.go"       -> <<"d", ".", "g", "o">>
    [] n = "sub"        -> <<"s", "u", "b">>

Root == << >>

NoPath == <<"">>      \* the empty string of the Go code: no selection

\* Mutant: the path of an entry is its name alone.
Join_NameOnly(dir, name) == <<name>>

\* filepath.Join(dir, name)
Join(dir, name) == Append(dir, name)

Base(p) == p[Len(p)]

Dir(p) == SubSeq(p, 1, Len(p) - 1)

IsPrefix(p, q) == Len(p) <= Len(q) /\ SubSeq(q, 1, Len(p)) = p

(***************************************************************************)
(* Filesystem primitives.                                                  *)
(***************************************************************************)
Exists(f, p) == p = Root \/ p \in DOMAIN f

IsDir(f, p) == p = Root \/ (p \in DOMAIN f /\ f[p] \in {"dir", "locked"})

\* os.ReadDir returns no error.  An entry for the root itself says that the
\* root cannot be listed.
Readable(f, p) == IsDir(f, p) /\ ~(p \in DOMAIN f /\ f[p] = "locked")

Restrict(f, S) == [p \in S |-> f[p]]

\* os.ReadDir: the names in a directory, sorted by name.
RECURSIVE SortedFrom(_, _)
SortedFrom(S, i) ==
  IF i > Len(NameOrder) THEN << >>
  ELSE IF NameOrder[i] \in S THEN <<NameOrder[i]>> \o SortedFrom(S, i + 1)
  ELSE SortedFrom(S, i + 1)

ReadDir(f, d) == SortedFrom({Base(p) : p \in {q \in DOMAIN f \ {Root} : Dir(q) = d}}, 1)

\* os.Create on a path that os.Stat did not find.
OsCreate(f, p) ==
  IF IsDir(f, Dir(p)) /\ ~IsDir(f, p)
  THEN [fs |-> (p :> "empty") @@ Restrict(f, DOMAIN f \ {p}), err |-> FALSE]
  ELSE [fs |-> f, err |-> TRUE]

\* os.Mkdir.
OsMkdir(f, p) ==
  IF IsDir(f, Dir(p)) /\ ~Exists(f, p)
  THEN [fs |-> (p :> "dir") @@ f, err |-> FALSE]
  ELSE [fs |-> f, err |-> TRUE]

\* os.RemoveAll: the entry and everything below it.
OsRemoveAll(f, p) == Restrict(f, {q \in DOMAIN f : ~IsPrefix(p, q)})

\* os.Remove of a file.
OsRemove(f, p) == Restrict(f, DOMAIN f \ {p})

(***************************************************************************)
(* internal/fileops.go: the mutation executor.  Each operation returns the *)
(* filesystem it leaves and whether it returned an error.                  *)
(***************************************************************************)
\* Mutant: the existence check is missing, os.Create truncates.
CreateFile_NoCheck(f, fullPath) == OsCreate(f, fullPath)

CreateFile(f, fullPath) ==
  IF Exists(f, fullPath) THEN [fs |-> f, err |-> TRUE]
  ELSE OsCreate(f, fullPath)

CreateDirectory(f, fullPath) ==
  IF Exists(f, fullPath) THEN [fs |-> f, err |-> TRUE]
  ELSE OsMkdir(f, fullPath)

\* Mutant: the kind check is missing, os.Remove removes an empty directory.
DeleteFile_NoKindCheck(f, fullPath) ==
  IF ~Exists(f, fullPath) THEN [fs |-> f, err |-> TRUE]
  ELSE IF IsDir(f, fullPath) /\ ReadDir(f, fullPath) # << >> THEN [fs |-> f, err |-> TRUE]
  ELSE [fs |-> OsRemove(f, fullPath), err |-> FALSE]

DeleteFile(f, fullPath) ==
  IF ~Exists(f, fullPath) THEN [fs |-> f, err |-> TRUE]
  ELSE IF IsDir(f, fullPath) THEN [fs |-> f, err |-> TRUE]
  ELSE [fs |-> OsRemove(f, fullPath), err |-> FALSE]

\* os.RemoveAll cannot empty a directory it may not list.
DeleteDirectory(f, fullPath) ==
  IF ~Exists(f, fullPath) THEN [fs |-> f, err |-> TRUE]
  ELSE IF ~IsDir(f, fullPath) THEN [fs |-> f, err |-> TRUE]
  ELSE IF ~Readable(f, fullPath) /\ ReadDir(f, fullPath) # << >> THEN [fs |-> f, err |-> TRUE]
  ELSE [fs |-> OsRemoveAll(f, fullPath), err |-> FALSE]

\* The number of direct children; 0 when the directory cannot be read
\* (the caller keeps itemCount at 0 on an error).
CountDirectoryContents(f, fullPath) ==
  IF Readable(f, fullPath) THEN Len(ReadDir(f, fullPath)) ELSE 0

(***************************************************************************)
(* The ignore-rule matcher.  Patterns and paths are sequences of           *)
(* characters; filepath.Match is modelled for literals, '?' and '*'        *)
(* (neither of which matches the separator).                               *)
(***************************************************************************)
RECURSIVE Match(_, _)
Match(pattern, name) ==
  IF pattern = << >> THEN name = << >>
  ELSE IF Head(pattern) = "*"
       THEN \/ Match(Tail(pattern), name)
            \/ name # << >> /\ Head(name) # "/" /\ Match(pattern, Tail(name))
  ELSE IF name = << >> THEN FALSE
  ELSE IF Head(pattern) = "?"
       THEN Head(name) # "/" /\ Match(Tail(pattern), Tail(name))
  ELSE Head(pattern) = Head(name) /\ Match(Tail(pattern), Tail(name))

RECURSIVE PathChars(_)
PathChars(p) ==
  IF Len(p) = 0 THEN <<".">>
  ELSE IF Len(p) = 1 THEN Chars(p[1])
  ELSE PathChars(Dir(p)) \o <<"/">> \o Chars(Base(p))

HasSuffixSlash(s) == Len(s) > 0 /\ s[Len(s)] = "/"

TrimPrefixSlash(s) == IF Len(s) > 0 /\ s[1] = "/" THEN Tail(s) ELSE s

ContainsSlash(s) == \E i \in 1..Len(s) : s[i] = "/"

ContainsStarStar(s) == \E i \in 1..(Len(s) - 1) : s[i] = "*" /\ s[i + 1] = "*"

\* strings.ReplaceAll(pattern, "**", "*")
RECURSIVE ReplaceStarStar(_)
ReplaceStarStar(s) ==
  IF Len(s) < 2 THEN s
  ELSE IF s[1] = "*" /\ s[2] = "*" THEN <<"*">> \o ReplaceStarStar(SubSeq(s, 3, Len(s)))
  ELSE <<s[1]>> \o ReplaceStarStar(Tail(s))

AnyPart(pattern, p) == \E i \in 1..Len(p) : Match(pattern, Chars(p[i]))

\* Mutant: a pattern without "/" is tried on the basename and the whole
\* path only.
matchPattern_NoSegments(p, rawPattern) ==
  LET pat0 == TrimPrefixSlash(rawPattern)
      isDirPat == HasSuffixSlash(pat0)
      pattern == IF isDirPat THEN SubSeq(pat0, 1, Len(pat0) - 1) ELSE pat0
  IN \/ isDirPat /\ AnyPart(pattern, p)
     \/ Match(pattern, Chars(Base(p)))
     \/ Match(pattern, PathChars(p))
     \/ ContainsStarStar(pattern) /\ Match(ReplaceStarStar(pattern), PathChars(p))

matchPattern(p, rawPattern) ==
  LET pat0 == TrimPrefixSlash(rawPattern)
      isDirPat == HasSuffixSlash(pat0)
      pattern == IF isDirPat THEN SubSeq(pat0, 1, Len(pat0) - 1) ELSE pat0
  IN \/ isDirPat /\ AnyPart(pattern, p)
     \/ Match(pattern, Chars(Base(p)))
     \/ Match(pattern, PathChars(p))
     \/ ContainsStarStar(pattern) /\ Match(ReplaceStarStar(pattern), PathChars(p))
     \/ ~ContainsSlash(pattern) /\ AnyPart(pattern, p)

IsIgnored(patterns, p) == \E i \in 1..Len(patterns) : matchPattern(p, patterns[i])

(***************************************************************************)
(* The git change query.  A repository status is the numstat of the        *)
(* unstaged changes, the numstat of the staged changes and the untracked   *)
(* files; ok is FALSE when git cannot be run or there is no repository.    *)
(***************************************************************************)
Lookup(fn, k, default) == IF k \in DOMAIN fn THEN fn[k] ELSE default

NoChanges == [p \in {} |-> 0]

ScenarioGit ==
  [ok |-> TRUE, unstaged |-> (<<"b.go">> :> 2), staged |-> NoChanges,
   untracked |-> {<<"c.go">>}]

StagedGit ==
  [ok |-> TRUE, unstaged |-> (<<"b.go">> :> 1),
   staged |-> (<<"b.go">> :> 2) @@ (<<"a.go">> :> 1), untracked |-> {<<"sub", "d.go">>}]

NoGit == [ok |-> FALSE, unstaged |-> NoChanges, staged |-> NoChanges, untracked |-> {}]

GitStates == {ScenarioGit, StagedGit, NoGit}

\* The repository states other processes produce in Spec.
SpecGitStates == {ScenarioGit, StagedGit}

\* Mutant: the staged count of a path replaces its unstaged count.
GetAllGitDiffs_StagedOverwrites(g) ==
  IF ~g.ok THEN NoChanges
  ELSE [p \in DOMAIN g.unstaged \cup DOMAIN g.staged \cup g.untracked |->
          IF p \in g.untracked THEN -1
          ELSE IF p \in DOMAIN g.staged THEN g.staged[p]
          ELSE g.unstaged[p]]

GetAllGitDiffs(g) ==
  IF ~g.ok THEN NoChanges
  ELSE LET afterStaged ==
             [p \in DOMAIN g.unstaged \cup DOMAIN g.staged |->
                IF p \in DOMAIN g.unstaged /\ p \in DOMAIN g.staged
                THEN g.unstaged[p] + g.staged[p]
                ELSE IF p \in DOMAIN g.staged THEN g.staged[p]
                ELSE g.unstaged[p]]
       IN [p \in DOMAIN afterStaged \cup g.untracked |->
             IF p \in g.untracked THEN -1 ELSE afterStaged[p]]

(***************************************************************************)
(* buildTreeRecursiveWithMap.  A node of the tree has its path, its kind,  *)
(* whether it was expanded, its change count and its children in the order *)
(* of t.Child; the tree of a directory is the sequence of its children.    *)
(* The builder threads *lineNum, fileMap and dirMap through the recursion; *)
(* reads is the set of directories handed to os.ReadDir.                   *)
(***************************************************************************)
\* Mutant: .gitignore is hidden like any other dot file.
Included_NoException(c, relPath) ==
  LET entryName == Base(relPath)
  IN /\ entryName # ".git"
     /\ ~(Chars(entryName)[1] = "." /\ ~c.showHidden)
     /\ ~(c.respectIgnore /\ IsIgnored(c.gitignore, relPath))

Included(c, relPath) ==
  LET entryName == Base(relPath)
      isHidden == Chars(entryName)[1] = "."
      isGitignore == entryName = ".gitignore"
  IN /\ entryName # ".git"
     /\ ~(isHidden /\ ~isGitignore /\ ~c.showHidden)
     /\ ~(c.respectIgnore /\ IsIgnored(c.gitignore, relPath))

\* Mutant: every directory is recursed into.
shouldExpand_Always(c, relPath) == TRUE

\* Mutant: only the nesting flag opens a directory.
shouldExpand_OnlyNesting(c, relPath) == c.nestingEnabled

shouldExpand(c, relPath) == c.nestingEnabled \/ relPath \in c.expandedDirs

Node(relPath, isDir, open, diff, children) ==
  [path |-> relPath, isDir |-> isDir, open |-> open, diff |-> diff, children |-> children]

\* t.Child(node), for the entries after it in the loop built first
AddChild(node, r) == [children |-> <<node>> \o r.children, st |-> r.st]

\* Mutant: a directory is indexed without advancing the line counter.
TrackDir_NoAdvance(st, relPath) ==
  [st EXCEPT !.dirMap = (st.lineNum :> relPath) @@ @]

\* dirMap[*lineNum] = relPath; *lineNum++
TrackDir(st, relPath) ==
  [st EXCEPT !.dirMap = (st.lineNum :> relPath) @@ @, !.lineNum = @ + 1]

\* Mutant: a file is indexed without advancing the line counter.
TrackFile_NoAdvance(st, relPath) ==
  [st EXCEPT !.fileMap = (st.lineNum :> relPath) @@ @]

\* fileMap[*lineNum] = relPath; *lineNum++
TrackFile(st, relPath) ==
  [st EXCEPT !.fileMap = (st.lineNum :> relPath) @@ @, !.lineNum = @ + 1]

RECURSIVE buildTreeRecursiveWithMap(_, _, _), BuildEntries(_, _, _, _), AfterSubTree(_, _, _, _, _)
\* Mutant: the error of os.ReadDir is not looked at.
buildTreeRecursiveWithMap_IgnoreErr(c, relativePath, st) ==
  BuildEntries(c, relativePath, ReadDir(c.fs, relativePath),
               [st EXCEPT !.reads = @ \cup {relativePath}])

\* entries, err := os.ReadDir(fullPath); if err != nil { return t }
buildTreeRecursiveWithMap(c, relativePath, st) ==
  IF ~Readable(c.fs, relativePath)
  THEN [children |-> << >>, st |-> [st EXCEPT !.reads = @ \cup {relativePath}]]
  ELSE BuildEntries(c, relativePath, ReadDir(c.fs, relativePath),
                    [st EXCEPT !.reads = @ \cup {relativePath}])

\* for _, entry := range entries
BuildEntries(c, relativePath, names, st) ==
  IF names = << >> THEN [children |-> << >>, st |-> st]
  ELSE LET relPath == Join(relativePath, Head(names))
       IN IF ~Included(c, relPath) THEN BuildEntries(c, relativePath, Tail(names), st)
          ELSE IF IsDir(c.fs, relPath)
          THEN IF shouldExpand(c, relPath)
               THEN AfterSubTree(c, relativePath, names, relPath,
                      buildTreeRecursiveWithMap(c, relPath, TrackDir(st, relPath)))
               ELSE AddChild(Node(relPath, TRUE, FALSE, 0, << >>),
                      BuildEntries(c, relativePath, Tail(names), TrackDir(st, relPath)))
          ELSE AddChild(Node(relPath, FALSE, FALSE, Lookup(c.diffCache, relPath, 0), << >>),
                 BuildEntries(c, relativePath, Tail(names), TrackFile(st, relPath)))

\* t.Child(subTree), then the rest of the loop with the counter the
\* recursion left
AfterSubTree(c, relativePath, names, relPath, subTree) ==
  AddChild(Node(relPath, TRUE, TRUE, 0, subTree.children),
           BuildEntries(c, relativePath, Tail(names), subTree.st))

\* The maps and the counter a build starts with.
NewMaps(lineNum) ==
  [lineNum |-> lineNum, fileMap |-> << >>, dirMap |-> << >>, reads |-> {}]

Indexed(t) ==
  [tree |-> t.children, fileMap |-> t.st.fileMap, dirMap |-> t.st.dirMap,
   reads |-> t.st.reads]

\* Mutant: the line counter starts at 0.
buildTreeWithMaps_FromZero(c) == Indexed(buildTreeRecursiveWithMap(c, Root, NewMaps(0)))

\* buildTreeWithMaps: line numbers start at 1 because the root takes line 0.
buildTreeWithMaps(c) == Indexed(buildTreeRecursiveWithMap(c, Root, NewMaps(1)))

(***************************************************************************)
(* Rendering.  tree.String() gives the root line and one line per entry;   *)
(* a line is modelled by its depth, its name and its suffix ("/" for a     *)
(* collapsed directory, the change annotation for a file).  The            *)
(* box-drawing prefix, which depends only on depth and sibling position,   *)
(* is left out.                                                            *)
(***************************************************************************)
\* Mutant: a file with no count in the cache is annotated as new.
Suffix_AbsentIsNew(e) ==
  IF e.isDir THEN (IF e.open THEN <<"", 0>> ELSE <<"/", 0>>)
  ELSE IF e.diff > 0 THEN <<"+", e.diff>>
  ELSE <<"new", 0>>

Suffix(e) ==
  IF e.isDir THEN (IF e.open THEN <<"", 0>> ELSE <<"/", 0>>)
  ELSE IF e.diff > 0 THEN <<"+", e.diff>>
  ELSE IF e.diff = -1 THEN <<"new", 0>>
  ELSE <<"", 0>>

RootLine == [depth |-> 0, name |-> ".", suffix |-> <<"", 0>>]

EntryLine(e) == [depth |-> Len(e.path), name |-> Base(e.path), suffix |-> Suffix(e)]

\* tree.String(): each child on a line of its own, followed by the lines of
\* its children.
RECURSIVE Entries(_)
Entries(children) ==
  IF children = << >> THEN << >>
  ELSE <<Head(children)>> \o Entries(Head(children).children) \o Entries(Tail(children))

PlainLines(entries) == [i \in 1..Len(entries) |-> EntryLine(entries[i])]

\* strings.Split(m.tree.String(), "\n"); element l + 1 is line number l.
TreeLines(tree) == <<RootLine>> \o PlainLines(Entries(tree))

\* highlightStyle.Render(lines[selectedLine])
Highlight(line) == [line |-> line, hl |-> TRUE]

\* An element of a slice as strings.Join writes it: the plain line, or the
\* highlighted string if that is what the slice holds.
Text(line) == IF "hl" \in DOMAIN line THEN line ELSE [line |-> line, hl |-> FALSE]

Joined(lines) == [i \in 1..Len(lines) |-> Text(lines[i])]

\* Mutant: the selected line is highlighted in the slice passed in, with no
\* copy made.
renderTreeWithSelectionOptimized_InPlace(lines, selectedLine) ==
  IF Len(lines) = 0 THEN [content |-> << >>, lines |-> lines]
  ELSE IF selectedLine < 0 \/ selectedLine >= Len(lines)
       THEN [content |-> Joined(lines), lines |-> lines]
  ELSE [content |-> Joined([lines EXCEPT ![selectedLine + 1] = Highlight(@)]),
        lines |-> [lines EXCEPT ![selectedLine + 1] = Highlight(@)]]

\* Mutant: the line below the selected one is the one highlighted.
renderTreeWithSelectionOptimized_NextLine(lines, selectedLine) ==
  IF Len(lines) = 0 THEN [content |-> << >>, lines |-> lines]
  ELSE IF selectedLine < 0 \/ selectedLine >= Len(lines)
       THEN [content |-> Joined(lines), lines |-> lines]
  ELSE [content |-> Joined([i \in 1..Len(lines) |->
                              IF i = selectedLine + 2 THEN Highlight(lines[i])
                              ELSE lines[i]]),
        lines |-> lines]

\* renderTreeWithSelectionOptimized (and renderTreeWithSelection, which
\* splits the same string): the string returned, the selected line
\* highlighted in a copy of the slice, and the caller's slice as the call
\* leaves it.
renderTreeWithSelectionOptimized(lines, selectedLine) ==
  IF Len(lines) = 0 THEN [content |-> << >>, lines |-> lines]
  ELSE IF selectedLine < 0 \/ selectedLine >= Len(lines)
       THEN [content |-> Joined(lines), lines |-> lines]
  ELSE [content |-> Joined([lines EXCEPT ![selectedLine + 1] = Highlight(@)]),
        lines |-> lines]

\* renderTreeWithSelectionOptimized(m.treeLines, m.selectedLine) as its
\* caller sees it: the string, and the model whose cached lines the call
\* was handed.
Rendered(mm) ==
  LET r == renderTreeWithSelectionOptimized(mm.treeLines, mm.selectedLine)
  IN [content |-> r.content, m |-> [mm EXCEPT !.treeLines = r.lines]]

(***************************************************************************)
(* The model struct of src/main.go and the pieces its handlers share.      *)
(* Update receives the model by value and returns the new one, so a        *)
(* handler is an operator from the model (and the filesystem) to a result: *)
(* the new model, the filesystem it leaves, which handler ran (the         *)
(* handlers that neither build nor fetch count as "other"), the error and  *)
(* the target of the file operation, whether the tree was built and which  *)
(* directories the build listed.                                           *)
(* Not modelled: theme, window size and scroll offset, the clipboard hint. *)
(***************************************************************************)
Cfg(mm, f) ==
  [fs |-> f, diffCache |-> mm.diffCache, gitignore |-> mm.gitignore,
   respectIgnore |-> mm.respectIgnore, nestingEnabled |-> mm.nestingEnabled,
   expandedDirs |-> mm.expandedDirs, showHidden |-> mm.showHidden]

\* m.tree, m.fileMap, m.dirMap = buildTreeWithMaps(...)
SetTree(mm, b) == [mm EXCEPT !.tree = b.tree, !.fileMap = b.fileMap, !.dirMap = b.dirMap]

\* Mutant: the cache is not refreshed.
updateTreeCache_Skip(mm) == mm

updateTreeCache(mm) ==
  LET lines == TreeLines(mm.tree)
  IN [mm EXCEPT !.treeLines = lines,
                !.maxLine = IF Len(lines) - 1 < 0 THEN 0 ELSE Len(lines) - 1]

\* The build every rebuilding handler runs, with the model's current flags.
Build(mm, f) == buildTreeWithMaps(Cfg(mm, f))

\* m.tree, m.fileMap, m.dirMap = buildTreeWithMaps(...); m.updateTreeCache()
Rebuild(mm, b) == [m |-> updateTreeCache(SetTree(mm, b)), reads |-> b.reads]

\* The rebuild of a handler: the model with the new tree and the
\* directories the build listed.
Rebuilt(mm, f) == Rebuild(mm, Build(mm, f))

\* m.viewport.SetContent(newContent); m.lastContent = newContent
SetContent(mm) ==
  LET r == Rendered(mm)
  IN [r.m EXCEPT !.viewport = r.content, !.lastContent = r.content]

Clamp(line, maxLine) ==
  IF line > maxLine THEN maxLine ELSE IF line < 0 THEN 0 ELSE line

\* m.selectedLine = newSelectedLine, kept within the tree
Select(mm, line) == [mm EXCEPT !.selectedLine = Clamp(line, mm.maxLine)]

\* for line, path := range map { if path == wanted { ...; break } }
FindLine(map, wanted, default) ==
  IF \E l \in DOMAIN map : map[l] = wanted
  THEN CHOOSE l \in DOMAIN map : map[l] = wanted
  ELSE default

CurrentFile(mm) == Lookup(mm.fileMap, mm.selectedLine, NoPath)

CurrentSelection(mm) ==
  IF mm.selectedLine \in DOMAIN mm.fileMap THEN mm.fileMap[mm.selectedLine]
  ELSE Lookup(mm.dirMap, mm.selectedLine, NoPath)

NoReads == {}

\* What a handler hands to skate set: nothing.
NoWrites == << >>

Result(mm, f, kind) ==
  [m |-> mm, fs |-> f, kind |-> kind, err |-> FALSE, path |-> NoPath,
   built |-> FALSE, reads |-> NoReads, publish |-> NoWrites, tick |-> FALSE]

Built(mm, f, kind, rb) ==
  [Result(mm, f, kind) EXCEPT !.built = TRUE, !.reads = rb.reads]

(***************************************************************************)
(* case tickMsg                                                            *)
(***************************************************************************)
\* The tick after its rebuild: the cursor goes to the line of the file it
\* was on, the viewport is set when the rendering changed.
\* Mutant: the tick compares the new content with the viewport's first
\* line only.
TickRebuilt_FirstLine(mm, rb, f) ==
  LET currentFile == CurrentFile(mm)
      line == IF currentFile # NoPath
              THEN FindLine(rb.m.fileMap, currentFile, mm.selectedLine)
              ELSE mm.selectedLine
      m3 == Select(rb.m, line)
      r == Rendered(m3)
  IN [Built(IF Head(r.content) # Head(mm.lastContent) THEN SetContent(r.m) ELSE r.m,
            f, "tick", rb) EXCEPT !.tick = TRUE]

\* Mutant: the tick is handled and no next tick is scheduled.
TickRebuilt_NoNextTick(mm, rb, f) ==
  LET currentFile == CurrentFile(mm)
      line == IF currentFile # NoPath
              THEN FindLine(rb.m.fileMap, currentFile, mm.selectedLine)
              ELSE mm.selectedLine
      m3 == Select(rb.m, line)
      r == Rendered(m3)
  IN Built(IF r.content # mm.lastContent THEN SetContent(r.m) ELSE r.m, f, "tick", rb)

TickRebuilt(mm, rb, f) ==
  LET currentFile == CurrentFile(mm)
      line == IF currentFile # NoPath
              THEN FindLine(rb.m.fileMap, currentFile, mm.selectedLine)
              ELSE mm.selectedLine
      m3 == Select(rb.m, line)
      r == Rendered(m3)
  IN [Built(IF r.content # mm.lastContent THEN SetContent(r.m) ELSE r.m, f, "tick", rb)
        EXCEPT !.tick = TRUE]

\* Mutant: the tick applies the change map fetched at startup.
HandleTick_StaleFetch(mm, f, g) ==
  TickRebuilt(mm, Rebuilt([mm EXCEPT !.diffCache = GetAllGitDiffs(ScenarioGit)], f), f)

HandleTick(mm, f, g) ==
  TickRebuilt(mm, Rebuilt([mm EXCEPT !.diffCache = GetAllGitDiffs(g)], f), f)

(***************************************************************************)
(* case tea.WindowSizeMsg                                                  *)
(***************************************************************************)
FirstSize(rb, f) == Built([SetContent(rb.m) EXCEPT !.ready = TRUE], f, "winsize", rb)

HandleWindowSize(mm, f) ==
  IF ~mm.ready THEN FirstSize(Rebuilt(mm, f), f) ELSE Result(mm, f, "other")

(***************************************************************************)
(* Keys "i", "n", "u": toggle a policy flag and rebuild, keeping the       *)
(* cursor on the selected file if there is one.                            *)
(***************************************************************************)
KeepFile(mm, rb, f, kind) ==
  LET currentFile == CurrentFile(mm)
      line == IF currentFile # NoPath THEN FindLine(rb.m.fileMap, currentFile, 0) ELSE 0
  IN Built(SetContent(Select(rb.m, line)), f, kind, rb)

RebuildKeepingFile(mm, toggled, f, kind) == KeepFile(mm, Rebuilt(toggled, f), f, kind)

\* Mutant: the key turns the rules off and never on again.
KeyI_OnlyOff(mm, f) ==
  RebuildKeepingFile(mm, [mm EXCEPT !.respectIgnore = FALSE], f, "ignore")

KeyI(mm, f) ==
  RebuildKeepingFile(mm, [mm EXCEPT !.respectIgnore = ~mm.respectIgnore], f, "ignore")

\* Mutant: turning nesting on keeps the expansion state.
KeyN_KeepsExpanded(mm, f) ==
  RebuildKeepingFile(mm, [mm EXCEPT !.nestingEnabled = ~mm.nestingEnabled], f, "nesting")

KeyN(mm, f) ==
  RebuildKeepingFile(mm,
    [mm EXCEPT !.nestingEnabled = ~mm.nestingEnabled,
               !.expandedDirs = IF ~mm.nestingEnabled THEN {} ELSE @], f, "nesting")

KeyU(mm, f) ==
  RebuildKeepingFile(mm, [mm EXCEPT !.showHidden = ~mm.showHidden], f, "hidden")

(***************************************************************************)
(* Key "R": full refresh.  Key "r": refresh of the change map only.        *)
(***************************************************************************)
\* The cursor goes to the line of the remembered path, looked up in the
\* files first and then, if that left the line at `default`, in the
\* directories.
KeepSelection(mm, rb, default, f, kind) ==
  LET currentSelection == CurrentSelection(mm)
      inFiles == IF currentSelection # NoPath
                 THEN FindLine(rb.m.fileMap, currentSelection, default) ELSE default
      line == IF currentSelection # NoPath /\ inFiles = default
              THEN FindLine(rb.m.dirMap, currentSelection, default) ELSE inFiles
  IN Built(SetContent(Select(rb.m, line)), f, kind, rb)

KeyFullRefresh(mm, f, g) ==
  KeepSelection(mm, Rebuilt([mm EXCEPT !.diffCache = GetAllGitDiffs(g)], f), 0, f, "fullRefresh")

KeyGitRefresh(mm, f, g) ==
  Result(SetContent([mm EXCEPT !.diffCache = GetAllGitDiffs(g)]), f, "gitRefresh")

(***************************************************************************)
(* Keys "right"/"l" and "left"/"h": expand or collapse the directory under *)
(* the cursor, only when global nesting is off.                            *)
(***************************************************************************)
\* Mutant: after the rebuild the remembered path is looked up in the files
\* only.
RebuildKeepingSelection_FilesOnly(mm, changed, f, kind) ==
  LET rb == Rebuilt(changed, f)
      line == FindLine(rb.m.fileMap, CurrentSelection(mm), mm.selectedLine)
  IN Built(SetContent(Select(rb.m, line)), f, kind, rb)

RebuildKeepingSelection(mm, changed, f, kind) ==
  KeepSelection(mm, Rebuilt(changed, f), mm.selectedLine, f, kind)

\* Mutant: a directory is expanded whether global nesting is on or off.
KeyExpand_AnyNesting(mm, f) ==
  IF mm.selectedLine \in DOMAIN mm.dirMap
  THEN RebuildKeepingSelection(mm,
         [mm EXCEPT !.expandedDirs = @ \cup {mm.dirMap[mm.selectedLine]}], f, "expand")
  ELSE Result(mm, f, "other")

KeyExpand(mm, f) ==
  IF ~mm.nestingEnabled /\ mm.selectedLine \in DOMAIN mm.dirMap
  THEN RebuildKeepingSelection(mm,
         [mm EXCEPT !.expandedDirs = @ \cup {mm.dirMap[mm.selectedLine]}], f, "expand")
  ELSE Result(mm, f, "other")

\* Mutant: collapsing a directory forgets the expanded directories below it.
KeyCollapse_WithDescendants(mm, f) ==
  IF ~mm.nestingEnabled /\ mm.selectedLine \in DOMAIN mm.dirMap
  THEN RebuildKeepingSelection(mm,
         [mm EXCEPT !.expandedDirs =
            {d \in @ : ~IsPrefix(mm.dirMap[mm.selectedLine], d)}], f, "collapse")
  ELSE Result(mm, f, "other")

KeyCollapse(mm, f) ==
  IF ~mm.nestingEnabled /\ mm.selectedLine \in DOMAIN mm.dirMap
  THEN RebuildKeepingSelection(mm,
         [mm EXCEPT !.expandedDirs = @ \ {mm.dirMap[mm.selectedLine]}], f, "collapse")
  ELSE Result(mm, f, "other")

(***************************************************************************)
(* Keys "j"/"down" and "k"/"up".                                           *)
(***************************************************************************)
\* Mutant: the cursor moves down whatever the last line is.
KeyDown_Unbounded(mm, f) ==
  LET m1 == [mm EXCEPT !.selectedLine = @ + 1]
      r == Rendered(m1)
  IN Result([r.m EXCEPT !.viewport = r.content], f, "other")

KeyDown(mm, f) ==
  IF mm.selectedLine < mm.maxLine
  THEN LET m1 == [mm EXCEPT !.selectedLine = @ + 1]
           r == Rendered(m1)
       IN Result([r.m EXCEPT !.viewport = r.content], f, "other")
  ELSE Result(mm, f, "other")

KeyUp(mm, f) ==
  IF mm.selectedLine > 0
  THEN LET m1 == [mm EXCEPT !.selectedLine = @ - 1]
           r == Rendered(m1)
       IN Result([r.m EXCEPT !.viewport = r.content], f, "other")
  ELSE Result(mm, f, "other")

(***************************************************************************)
(* Keys "enter"/" " (publish the selected file to the viewer: no change of *)
(* the model), "a"/"A" (open the creation prompt), "d" (ask to delete).    *)
(***************************************************************************)
NoDeletion == [path |-> NoPath, isDir |-> FALSE, itemCount |-> 0]

\* sessionID := generateSessionID(absPath); the ID of another instance
SessionID == "session"

OtherSessionID == "other"

\* m.rootPath, absolute
RootPath == <<"/", "work">>

\* filepath.Join(m.rootPath, filePath)
FullPath(relPath) == RootPath \o relPath

\* fmt.Sprintf("vinw-current-file@%s", m.sessionID)
SlotKey(sessionID) == <<"vinw-current-file@", sessionID>>

\* Mutant: whatever is under the cursor is published, a directory too.
KeySelect_AnyLine(mm, f) ==
  IF CurrentSelection(mm) # NoPath
  THEN [Result(mm, f, "select") EXCEPT
          !.publish = (SlotKey(SessionID) :> FullPath(CurrentSelection(mm)))]
  ELSE Result(mm, f, "select")

\* The file on the cursor's line, if os.Stat finds it and it is not a
\* directory, is handed to skate set; the model is returned as it came.
KeySelect(mm, f) ==
  IF mm.selectedLine \in DOMAIN mm.fileMap
     /\ Exists(f, mm.fileMap[mm.selectedLine])
     /\ ~IsDir(f, mm.fileMap[mm.selectedLine])
  THEN [Result(mm, f, "select") EXCEPT
          !.publish = (SlotKey(SessionID) :> FullPath(mm.fileMap[mm.selectedLine]))]
  ELSE Result(mm, f, "select")

KeyCreate(mm, f, mode) ==
  Result([mm EXCEPT !.creatingMode = mode, !.textInput = ""], f, "other")

\* Mutant: on a line that is in neither index the watched directory itself
\* becomes the target.
KeyDelete_RootToo(mm, f) ==
  IF mm.selectedLine \in DOMAIN mm.dirMap
  THEN LET fullPath == mm.dirMap[mm.selectedLine]
       IN Result([mm EXCEPT !.deletePending =
                    [path |-> fullPath, isDir |-> TRUE,
                     itemCount |-> CountDirectoryContents(f, fullPath)]], f, "other")
  ELSE IF mm.selectedLine \in DOMAIN mm.fileMap
  THEN Result([mm EXCEPT !.deletePending =
                 [path |-> mm.fileMap[mm.selectedLine], isDir |-> FALSE, itemCount |-> 0]],
              f, "other")
  ELSE Result([mm EXCEPT !.deletePending =
                 [path |-> Root, isDir |-> TRUE,
                  itemCount |-> CountDirectoryContents(f, Root)]], f, "other")

KeyDelete(mm, f) ==
  IF mm.selectedLine \in DOMAIN mm.dirMap
  THEN LET fullPath == mm.dirMap[mm.selectedLine]
       IN Result([mm EXCEPT !.deletePending =
                    [path |-> fullPath, isDir |-> TRUE,
                     itemCount |-> CountDirectoryContents(f, fullPath)]], f, "other")
  ELSE IF mm.selectedLine \in DOMAIN mm.fileMap
  THEN Result([mm EXCEPT !.deletePending =
                 [path |-> mm.fileMap[mm.selectedLine], isDir |-> FALSE, itemCount |-> 0]],
              f, "other")
  ELSE Result(mm, f, "other")

(***************************************************************************)
(* The creation prompt: "esc" cancels, "enter" confirms, any other key     *)
(* goes to the text input.                                                 *)
(***************************************************************************)
\* strings.TrimSpace on the values the text input can hold.
TrimSpace(t) ==
  CASE t = " " -> ""
    [] t = " a.go" -> "a.go"
    [] OTHER -> t

TypedValues == {" a.go", " "}

CancelCreation(mm, f) ==
  Result([mm EXCEPT !.creatingMode = "none", !.textInput = ""], f, "other")

\* The directory a new entry goes to: the selected directory, or the
\* parent of the selected file, or the root.
TargetDir(mm) ==
  IF mm.selectedLine \in DOMAIN mm.dirMap THEN mm.dirMap[mm.selectedLine]
  ELSE IF mm.selectedLine \in DOMAIN mm.fileMap THEN Dir(mm.fileMap[mm.selectedLine])
  ELSE Root

\* A typed name as filepath.Join takes it apart: the separator is a
\* character like any other to the text input.
Components(name) ==
  CASE name = "sub/a.go" -> <<"sub", "a.go">>
    [] OTHER -> <<name>>

\* fullPath := filepath.Join(targetDir, name)
CreateTarget(mm) == TargetDir(mm) \o Components(TrimSpace(mm.textInput))

\* The confirm after the file operation: the rebuild, no move of the cursor.
Created(op, fullPath, rb) ==
  [Built(SetContent(rb.m), op.fs, "create", rb) EXCEPT !.err = op.err, !.path = fullPath]

CreateOp(mm, f) ==
  IF mm.creatingMode = "file" THEN CreateFile(f, CreateTarget(mm))
  ELSE CreateDirectory(f, CreateTarget(mm))

ConfirmCreation(mm, f) ==
  IF TrimSpace(mm.textInput) = "" THEN CancelCreation(mm, f)
  ELSE Created(CreateOp(mm, f), CreateTarget(mm),
               Rebuilt([mm EXCEPT !.creatingMode = "none", !.textInput = ""],
                       CreateOp(mm, f).fs))

\* Mutant: the line down key moves the cursor while the prompt is open.
CreationKey_CursorMoves(mm, f, k, text) ==
  IF k = "esc" THEN CancelCreation(mm, f)
  ELSE IF k = "enter" THEN ConfirmCreation(mm, f)
  ELSE IF k = "j" THEN KeyDown([mm EXCEPT !.textInput = text], f)
  ELSE Result([mm EXCEPT !.textInput = text], f, "other")

CreationKey(mm, f, k, text) ==
  IF k = "esc" THEN CancelCreation(mm, f)
  ELSE IF k = "enter" THEN ConfirmCreation(mm, f)
  ELSE Result([mm EXCEPT !.textInput = text], f, "other")

(***************************************************************************)
(* The delete confirmation: "y" confirms, "n"/"esc" cancels; any other key *)
(* is not handled here and reaches the main key switch.                    *)
(***************************************************************************)
\* The confirm after the file operation: the rebuild, the cursor clamped.
Deleted(op, fullPath, rb) ==
  [Built(SetContent(Select(rb.m, rb.m.selectedLine)), op.fs, "delete", rb)
     EXCEPT !.err = op.err, !.path = fullPath]

DeleteOp(mm, f) ==
  IF mm.deletePending.isDir THEN DeleteDirectory(f, mm.deletePending.path)
  ELSE DeleteFile(f, mm.deletePending.path)

\* Mutant: the tree is rebuilt only when the deletion succeeded.
ConfirmDeletion_RebuildOnSuccess(mm, f) ==
  Deleted(DeleteOp(mm, f), mm.deletePending.path,
          IF DeleteOp(mm, f).err
          THEN [m |-> [mm EXCEPT !.deletePending = NoDeletion], reads |-> {Root}]
          ELSE Rebuilt([mm EXCEPT !.deletePending = NoDeletion], DeleteOp(mm, f).fs))

ConfirmDeletion(mm, f) ==
  Deleted(DeleteOp(mm, f), mm.deletePending.path,
          Rebuilt([mm EXCEPT !.deletePending = NoDeletion], DeleteOp(mm, f).fs))

CancelDeletion(mm, f) == Result([mm EXCEPT !.deletePending = NoDeletion], f, "other")

(***************************************************************************)
(* case tea.KeyMsg: the overlays in the order Update tests them, then the  *)
(* main key switch.  Dismissing the help or the viewer popup with a key    *)
(* they do not name lets that key go on to the handlers below.             *)
(***************************************************************************)
MainKey(mm, f, g, k) ==
  CASE k = "?" -> Result([mm EXCEPT !.showHelp = ~mm.showHelp], f, "other")
    [] k = "v" -> Result([mm EXCEPT !.showViewer = ~mm.showViewer], f, "other")
    [] k = "r" -> KeyGitRefresh(mm, f, g)
    [] k = "R" -> KeyFullRefresh(mm, f, g)
    [] k = "i" -> KeyI(mm, f)
    [] k = "n" -> KeyN(mm, f)
    [] k = "j" -> KeyDown(mm, f)
    [] k = "k" -> KeyUp(mm, f)
    [] k = "h" -> KeyCollapse(mm, f)
    [] k = "u" -> KeyU(mm, f)
    [] k = "l" -> KeyExpand(mm, f)
    [] k \in {"enter", " "} -> KeySelect(mm, f)
    [] k = "a" -> KeyCreate(mm, f, "file")
    [] k = "A" -> KeyCreate(mm, f, "directory")
    [] k = "d" -> KeyDelete(mm, f)
    [] OTHER -> Result(mm, f, "other")

DeletionKey(mm, f, g, k) ==
  IF mm.deletePending # NoDeletion /\ k = "y" THEN ConfirmDeletion(mm, f)
  ELSE IF mm.deletePending # NoDeletion /\ k \in {"n", "esc"} THEN CancelDeletion(mm, f)
  ELSE MainKey(mm, f, g, k)

HandleKey(mm, f, g, k, text) ==
  IF mm.showStartup THEN Result([mm EXCEPT !.showStartup = FALSE], f, "other")
  ELSE IF mm.showHelp /\ k = "?" THEN Result([mm EXCEPT !.showHelp = FALSE], f, "other")
  ELSE IF mm.showViewer /\ k \in {"c", "v"}
       THEN Result([mm EXCEPT !.showHelp = FALSE, !.showViewer = FALSE], f, "other")
  ELSE LET m1 == [mm EXCEPT !.showHelp = FALSE, !.showViewer = FALSE]
       IN IF m1.creatingMode # "none" THEN CreationKey(m1, f, k, text)
          ELSE DeletionKey(m1, f, g, k)

\* View: the one screen drawn for a state, in the order View tests them.
View(mm) ==
  IF ~mm.ready THEN "initializing"
  ELSE IF mm.showStartup THEN "startup"
  ELSE IF mm.showViewer THEN "viewer"
  ELSE IF mm.creatingMode # "none" THEN "creation"
  ELSE IF mm.deletePending # NoDeletion THEN "delete"
  ELSE IF mm.showHelp THEN "help"
  ELSE "tree"

Keys == {"?", "v", "c", "r", "R", "i", "n", "j", "k", "h", "u", "l",
         "enter", " ", "a", "A", "d", "y", "esc"}

(***************************************************************************)
(* NewGitIgnore: the patterns of the root's .gitignore, read once at       *)
(* startup.  A line is a sequence of characters.                           *)
(***************************************************************************)
RECURSIVE TrimLeft(_)
TrimLeft(line) ==
  IF line # << >> /\ Head(line) = " " THEN TrimLeft(Tail(line)) ELSE line

RECURSIVE TrimRight(_)
TrimRight(line) ==
  IF line # << >> /\ line[Len(line)] = " "
  THEN TrimRight(SubSeq(line, 1, Len(line) - 1)) ELSE line

TrimLine(line) == TrimRight(TrimLeft(line))

RECURSIVE ParseLines(_)
ParseLines(lines) ==
  IF lines = << >> THEN << >>
  ELSE LET line == TrimLine(Head(lines))
       IN IF line = << >> \/ Head(line) = "#" THEN ParseLines(Tail(lines))
          ELSE <<line>> \o ParseLines(Tail(lines))

\* Mutant: the lines are taken as they are read, comments and blanks left
\* out before trimming.
NewGitIgnore_Untrimmed(hasFile, lines) ==
  IF hasFile THEN SelectSeq(lines, LAMBDA line : line # << >> /\ Head(line) # "#") ELSE << >>

\* hasFile: whether <root>/.gitignore could be opened.
NewGitIgnore(hasFile, lines) == IF hasFile THEN ParseLines(lines) ELSE << >>

(***************************************************************************)
(* The directories and repository states the program is started in.        *)
(***************************************************************************)
ScenarioFS ==
  (<<"a.go">> :> "data") @@ (<<"b.go">> :> "data") @@ (<<"c.go">> :> "data")
  @@ (<<"sub">> :> "dir") @@ (<<"sub", "d.go">> :> "data")

ProjectFS ==
  (<<".env">> :> "data") @@ (<<".git">> :> "dir") @@ (<<".gitignore">> :> "data")
  @@ (<<"b.go">> :> "data")

ProjectRules == << <<"#", " ", "x">>, << >>, <<" ", "b", ".", "g", "o", " ">> >>

Setups ==
  {[fs |-> ScenarioFS, hasRules |-> FALSE, rules |-> << >>],
   [fs |-> ProjectFS, hasRules |-> TRUE, rules |-> ProjectRules]}

(***************************************************************************)
(* State.                                                                  *)
(*   m      the model struct                                               *)
(*   fs     the filesystem below the watch root                            *)
(*   git    the repository status and how often others have changed it     *)
(*   ev     the last message handled: which handler ran, the error and the *)
(*          target of its file operation                                   *)
(*   reads  the directories listed by the last build                       *)
(*   used   how much of the bounds has been used                           *)
(*   slot   the key-value store of skate: the value under each key         *)
(*   rulesFile  the root's .gitignore as NewGitIgnore found it at startup: *)
(*          whether it could be opened, and its lines                      *)
(*   call   the file operation of internal/fileops.go that has made its    *)
(*          existence check and not yet its create step, if any            *)
(*   timer  the number of tickMsg timers started and not yet delivered     *)
(***************************************************************************)
VARIABLES m, fs, git, ev, reads, used, slot, rulesFile, call, timer

vars == <<m, fs, git, ev, reads, used, slot, rulesFile, call, timer>>

NoCall == [op |-> "none", path |-> NoPath]

\* initialContent := renderTreeWithSelectionOptimized(m.treeLines, 0)
Started(rb) ==
  LET r == renderTreeWithSelectionOptimized(rb.m.treeLines, 0)
  IN [rb.m EXCEPT !.lastContent = r.content, !.treeLines = r.lines]

\* main(): the model as handed to tea.NewProgram.
InitialModel(setup, g) ==
  LET m0 == [tree |-> << >>, treeLines |-> << >>, maxLine |-> 0,
             viewport |-> << >>, ready |-> FALSE,
             diffCache |-> GetAllGitDiffs(g), lastContent |-> << >>,
             gitignore |-> NewGitIgnore(setup.hasRules, setup.rules),
             respectIgnore |-> TRUE, showHidden |-> FALSE, nestingEnabled |-> FALSE,
             expandedDirs |-> {}, selectedLine |-> 0,
             fileMap |-> << >>, dirMap |-> << >>,
             showHelp |-> FALSE, showViewer |-> FALSE, showStartup |-> TRUE,
             creatingMode |-> "none", textInput |-> "", deletePending |-> NoDeletion]
  IN Started(Rebuilt(m0, setup.fs))

InitWith(setup) ==
  /\ fs = setup.fs
  /\ git = [ver |-> 0, status |-> ScenarioGit]
  /\ m = InitialModel(setup, ScenarioGit)
  /\ ev = [kind |-> "init", err |-> FALSE, path |-> NoPath]
  /\ reads = Build(m, fs).reads
  /\ used = [external |-> 0, mutations |-> 0]
  /\ slot = (SlotKey(OtherSessionID) :> FullPath(<<"x.go">>))
  /\ rulesFile = [present |-> setup.hasRules, lines |-> setup.rules]
  /\ call = NoCall
  /\ timer = 1      \* model.Init returns tick()

\* cmd.Run() of skate set, errors ignored: the write is made or it is not.
SkateSet(store, writes) == {store, writes @@ store}

\* The effect of a handler on the state.
Apply(r) ==
  /\ m' = r.m
  /\ fs' = r.fs
  /\ ev' = [kind |-> r.kind, err |-> r.err, path |-> r.path]
  /\ reads' = IF r.built THEN r.reads ELSE reads
  /\ git' = git
  /\ slot' \in SkateSet(slot, r.publish)
  /\ rulesFile' = rulesFile
  /\ call' = call
  /\ timer' = (IF r.kind = "tick" THEN timer - 1 ELSE timer) + (IF r.tick THEN 1 ELSE 0)

\* A key's effect; confirmed file operations are counted.
ApplyKey(r) ==
  LET mutation == r.kind \in {"create", "delete"}
  IN /\ mutation => used.mutations < MaxMutations
     /\ Apply(r)
     /\ used' = IF mutation THEN [used EXCEPT !.mutations = @ + 1] ELSE used

\* case tea.KeyMsg on the current state.
Key(k, text) == HandleKey(m, fs, git.status, k, text)

PressDown == m.ready /\ ApplyKey(Key("j", ""))

PressUp == m.ready /\ ApplyKey(Key("k", ""))

PressExpand == m.ready /\ ApplyKey(Key("l", ""))

PressCollapse == m.ready /\ ApplyKey(Key("h", ""))

PressIgnore == m.ready /\ ApplyKey(Key("i", ""))

PressNesting == m.ready /\ ApplyKey(Key("n", ""))

PressHidden == m.ready /\ ApplyKey(Key("u", ""))

PressFullRefresh == m.ready /\ ApplyKey(Key("R", ""))

PressGitRefresh == m.ready /\ ApplyKey(Key("r", ""))

PressEnter == m.ready /\ ApplyKey(Key("enter", ""))

\* "enter" in the creation prompt
PressEnterName == m.ready /\ m.creatingMode # "none" /\ ApplyKey(Key("enter", ""))

PressSpace == m.ready /\ ApplyKey(Key(" ", ""))

PressNewFile == m.ready /\ ApplyKey(Key("a", ""))

PressNewDirectory == m.ready /\ ApplyKey(Key("A", ""))

PressDelete == m.ready /\ ApplyKey(Key("d", ""))

PressYes == m.ready /\ ApplyKey(Key("y", ""))

PressEsc == m.ready /\ ApplyKey(Key("esc", ""))

PressHelp == m.ready /\ ApplyKey(Key("?", ""))

PressViewer == m.ready /\ ApplyKey(Key("v", ""))

\* Any key that edits the text of the creation prompt.
TypeName ==
  /\ m.ready /\ m.creatingMode # "none"
  /\ \E text \in TypedValues : ApplyKey(Key("x", text))

\* A name with a separator typed into the creation prompt.
TypePath ==
  /\ m.ready /\ m.creatingMode # "none"
  /\ ApplyKey(Key("x", "sub/a.go"))

Tick == m.ready /\ timer > 0 /\ Apply(HandleTick(m, fs, git.status)) /\ used' = used

\* The program's first message is the size of the terminal: the other
\* actions wait for it (m.ready).
WindowSize == Apply(HandleWindowSize(m, fs)) /\ used' = used

(***************************************************************************)
(* Other processes: they create and remove entries below the root and      *)
(* change the repository status between two messages.                      *)
(***************************************************************************)
ExternalPaths == {<<"a.go">>, <<"sub">>, <<".env">>}

External(f) ==
  /\ m.ready
  /\ used.external < MaxExternal
  /\ fs' = f
  /\ used' = [used EXCEPT !.external = @ + 1]
  /\ ev' = [kind |-> "other", err |-> FALSE, path |-> NoPath]
  /\ UNCHANGED <<m, git, reads, slot, rulesFile, call, timer>>

ExternalCreate ==
  \E p \in ExternalPaths, what \in {"data", "dir"} :
    /\ ~Exists(fs, p) /\ IsDir(fs, Dir(p))
    /\ External((p :> what) @@ fs)

ExternalRemove ==
  \E p \in ExternalPaths : Exists(fs, p) /\ External(OsRemoveAll(fs, p))

ExternalGit ==
  /\ m.ready
  /\ git.ver < MaxGitChanges
  /\ \E g \in SpecGitStates \ {git.status} : git' = [ver |-> git.ver + 1, status |-> g]
  /\ ev' = [kind |-> "other", err |-> FALSE, path |-> NoPath]
  /\ UNCHANGED <<m, fs, reads, used, slot, rulesFile, call, timer>>

(***************************************************************************)
(* Spec: browsing.  The cursor keys, expand and collapse, the policy       *)
(* toggles, both refreshes and the timer, while other processes change the *)
(* directory and the repository status.                                    *)
(***************************************************************************)
Init == \E setup \in Setups : InitWith(setup)

Next ==
  \/ PressDown
  \/ PressUp
  \/ PressExpand
  \/ PressCollapse
  \/ PressIgnore
  \/ PressNesting
  \/ PressHidden
  \/ PressFullRefresh
  \/ PressGitRefresh
  \/ Tick
  \/ WindowSize
  \/ ExternalCreate
  \/ ExternalRemove
  \/ ExternalGit

Spec == Init /\ [][Next]_vars

(***************************************************************************)
(* SpecMutate: creating and deleting.  The cursor keys, the creation       *)
(* prompt and the delete confirmation under the default policy, while      *)
(* other processes change the directory.                                   *)
(***************************************************************************)
InitMutate == InitWith([fs |-> ScenarioFS, hasRules |-> FALSE, rules |-> << >>])

NextMutate ==
  \/ PressDown
  \/ PressUp
  \/ PressNewFile
  \/ PressNewDirectory
  \/ TypeName
  \/ PressEnterName
  \/ PressDelete
  \/ PressYes
  \/ PressEsc
  \/ WindowSize
  \/ ExternalCreate
  \/ ExternalRemove

SpecMutate == InitMutate /\ [][NextMutate]_vars

(***************************************************************************)
(* SpecListing: listing failures.  A directory with nested entries, hidden *)
(* ones included, browsed with the cursor keys, expand and collapse, the   *)
(* nesting and hidden toggles, the full refresh and the timer, while other *)
(* processes take away and give back the permission to list a directory    *)
(* and git stops being available.                                          *)
(***************************************************************************)
ListingFS ==
  (<<".env">> :> "dir") @@ (<<".env", "a.go">> :> "data") @@ (<<"a.go">> :> "data")
  @@ (<<"b.go">> :> "data") @@ (<<"sub">> :> "dir") @@ (<<"sub", "d.go">> :> "data")

ChmodPaths == {Root, <<".env">>, <<"sub">>}

\* chmod -r / chmod +r on a directory
Chmod(f, d) ==
  IF Readable(f, d) THEN (d :> "locked") @@ Restrict(f, DOMAIN f \ {d})
  ELSE IF d = Root THEN Restrict(f, DOMAIN f \ {d})
  ELSE (d :> "dir") @@ Restrict(f, DOMAIN f \ {d})

ExternalChmod == \E d \in ChmodPaths : IsDir(fs, d) /\ External(Chmod(fs, d))

\* git can no longer be run, or the repository is gone
GitUnavailable ==
  /\ m.ready
  /\ git.ver < MaxGitChanges
  /\ git.status # NoGit
  /\ git' = [ver |-> git.ver + 1, status |-> NoGit]
  /\ ev' = [kind |-> "other", err |-> FALSE, path |-> NoPath]
  /\ UNCHANGED <<m, fs, reads, used, slot, rulesFile, call, timer>>

InitListing == InitWith([fs |-> ListingFS, hasRules |-> FALSE, rules |-> << >>])

NextListing ==
  \/ PressDown
  \/ PressUp
  \/ PressExpand
  \/ PressCollapse
  \/ PressNesting
  \/ PressHidden
  \/ PressFullRefresh
  \/ Tick
  \/ WindowSize
  \/ ExternalChmod
  \/ GitUnavailable

SpecListing == InitListing /\ [][NextListing]_vars

(***************************************************************************)
(* SpecSession: one user alone.  The cursor keys, expand and collapse, the *)
(* nesting toggle, the creation prompt, the delete confirmation and the    *)
(* timer, with no other process at work.                                   *)
(***************************************************************************)
NextSession ==
  \/ PressDown
  \/ PressUp
  \/ PressExpand
  \/ PressCollapse
  \/ PressNesting
  \/ PressNewFile
  \/ TypeName
  \/ PressEnterName
  \/ PressDelete
  \/ PressYes
  \/ PressEsc
  \/ Tick
  \/ WindowSize

SpecSession == InitMutate /\ [][NextSession]_vars

(***************************************************************************)
(* SpecPolicy: the visibility policy.  A project directory with a .git     *)
(* directory, a hidden file and a .gitignore whose rule matches one of its *)
(* files, browsed with the three toggles while other processes change it.  *)
(***************************************************************************)
InitPolicy == InitWith([fs |-> ProjectFS, hasRules |-> TRUE, rules |-> ProjectRules])

NextPolicy ==
  \/ PressDown
  \/ PressUp
  \/ PressExpand
  \/ PressCollapse
  \/ PressIgnore
  \/ PressNesting
  \/ PressHidden
  \/ Tick
  \/ WindowSize
  \/ ExternalCreate
  \/ ExternalRemove

SpecPolicy == InitPolicy /\ [][NextPolicy]_vars

(***************************************************************************)
(* SpecSelect: selecting files for the viewer.  The cursor is moved over   *)
(* the lines of the example directory, "enter" and " " select, while other *)
(* processes change the directory under the tree on display.               *)
(***************************************************************************)
NextSelect ==
  \/ PressDown
  \/ PressUp
  \/ PressExpand
  \/ PressCollapse
  \/ PressEnter
  \/ PressSpace
  \/ Tick
  \/ WindowSize
  \/ ExternalCreate
  \/ ExternalRemove

SpecSelect == InitMutate /\ [][NextSelect]_vars

(***************************************************************************)
(* SpecNested: a directory inside a directory.  The cursor keys, expand    *)
(* and collapse and the timer, while other processes remove and create     *)
(* entries of the root.                                                    *)
(***************************************************************************)
NestedFS ==
  (<<"a.go">> :> "data") @@ (<<"sub">> :> "dir") @@ (<<"sub", "a.go">> :> "data")
  @@ (<<"sub", "sub">> :> "dir") @@ (<<"sub", "sub", "d.go">> :> "data")

InitNested == InitWith([fs |-> NestedFS, hasRules |-> FALSE, rules |-> << >>])

NextNested ==
  \/ PressDown
  \/ PressUp
  \/ PressExpand
  \/ PressCollapse
  \/ Tick
  \/ WindowSize
  \/ ExternalCreate
  \/ ExternalRemove

SpecNested == InitNested /\ [][NextNested]_vars

(***************************************************************************)
(* SpecCreate: the creation prompt alone.  The cursor keys, the prompt for *)
(* a file or a directory, names typed with and without a separator,        *)
(* confirm and cancel.                                                     *)
(***************************************************************************)
NextCreate ==
  \/ PressDown
  \/ PressUp
  \/ PressNewFile
  \/ PressNewDirectory
  \/ TypeName
  \/ TypePath
  \/ PressEnterName
  \/ PressEsc
  \/ WindowSize

SpecCreate == InitMutate /\ [][NextCreate]_vars

(***************************************************************************)
(* SpecRace: CreateFile and CreateDirectory step by step.  Each makes its  *)
(* existence check (os.Stat) and its create step (os.Create, os.Mkdir) as  *)
(* two system calls, and other processes run between the two.              *)
(***************************************************************************)
RacePaths == {<<".env">>, <<"a.go">>, <<"sub", "a.go">>}

\* What a call of the executor returned.
Returned(kind, fullPath, err) == [kind |-> kind, err |-> err, path |-> fullPath]

\* CreateFile: if _, err := os.Stat(fullPath); err == nil { return ... }
CreateFileCheck ==
  \E fullPath \in RacePaths :
    /\ m.ready /\ call = NoCall
    /\ IF Exists(fs, fullPath)
       THEN call' = call /\ ev' = Returned("createFile", fullPath, TRUE)
       ELSE /\ call' = [op |-> "CreateFile", path |-> fullPath]
            /\ ev' = Returned("other", NoPath, FALSE)
    /\ UNCHANGED <<m, fs, git, reads, used, slot, rulesFile, timer>>

\* CreateDirectory: if _, err := os.Stat(fullPath); err == nil { return ... }
CreateDirectoryCheck ==
  \E fullPath \in RacePaths :
    /\ m.ready /\ call = NoCall
    /\ IF Exists(fs, fullPath)
       THEN call' = call /\ ev' = Returned("createDirectory", fullPath, TRUE)
       ELSE /\ call' = [op |-> "CreateDirectory", path |-> fullPath]
            /\ ev' = Returned("other", NoPath, FALSE)
    /\ UNCHANGED <<m, fs, git, reads, used, slot, rulesFile, timer>>

\* file, err := os.Create(fullPath)
CreateFileStep ==
  /\ call.op = "CreateFile"
  /\ fs' = OsCreate(fs, call.path).fs
  /\ ev' = Returned("createFile", call.path, OsCreate(fs, call.path).err)
  /\ call' = NoCall
  /\ UNCHANGED <<m, git, reads, used, slot, rulesFile, timer>>

\* os.Mkdir(fullPath, 0755)
CreateDirectoryStep ==
  /\ call.op = "CreateDirectory"
  /\ fs' = OsMkdir(fs, call.path).fs
  /\ ev' = Returned("createDirectory", call.path, OsMkdir(fs, call.path).err)
  /\ call' = NoCall
  /\ UNCHANGED <<m, git, reads, used, slot, rulesFile, timer>>

NextRace ==
  \/ CreateFileCheck
  \/ CreateFileStep
  \/ CreateDirectoryCheck
  \/ CreateDirectoryStep
  \/ WindowSize
  \/ ExternalCreate
  \/ ExternalRemove

SpecRace == InitMutate /\ [][NextRace]_vars

(***************************************************************************)
(* SpecTimer: the timer under the overlays.  The cursor keys, the help and *)
(* the viewer popup, the creation prompt and the delete confirmation       *)
(* opened and cancelled, and the tick.  The runtime delivers a tickMsg     *)
(* when its timer has run out and the first window size at startup, so     *)
(* both are weakly fair.  The quit keys end the program and are not        *)
(* modelled.                                                               *)
(***************************************************************************)
NextTimer ==
  \/ PressDown
  \/ PressUp
  \/ PressHelp
  \/ PressViewer
  \/ PressNewFile
  \/ TypeName
  \/ PressDelete
  \/ PressEsc
  \/ PressGitRefresh
  \/ Tick
  \/ WindowSize

\* Weak fairness of the first window size and of the tick, with the
\* enabling conditions written out: the first window size can be taken as
\* long as the model is not ready, a tick as long as the model is ready and
\* a timer is pending (a tick after another message always changes ev).
TimerFairness ==
  /\ <>[](~m.ready) => []<><<WindowSize>>_vars
  /\ <>[](m.ready /\ timer > 0 /\ ev.kind # "tick") => []<><<Tick>>_vars

SpecTimer == InitMutate /\ [][NextTimer]_vars /\ TimerFairness

(***************************************************************************)
(* SpecDialog: the overlays.  The cursor keys, the help and the viewer     *)
(* popup, the creation prompt and the delete confirmation, with no other   *)
(* process at work.                                                        *)
(***************************************************************************)
NextDialog ==
  \/ PressDown
  \/ PressUp
  \/ PressHelp
  \/ PressViewer
  \/ PressNewFile
  \/ TypeName
  \/ PressEnterName
  \/ PressDelete
  \/ PressYes
  \/ PressEsc
  \/ WindowSize

SpecDialog == InitMutate /\ [][NextDialog]_vars

(***************************************************************************)
(* SpecRules: loading and applying the rules.  The program is started in   *)
(* the example directory with a .gitignore of up to MaxRuleLines lines     *)
(* (or with none), and the tree is browsed with the rules on and off.      *)
(***************************************************************************)
RuleLines ==
  {<<"*", ".", "g", "o">>, <<" ", "b", ".", "g", "o", " ">>, <<"#", " ", "x">>,
   << >>, <<" ", " ">>, <<" ", "#", "x">>, <<"b", "#">>,
   <<"s", "u", "b">>, <<"s", "u", "b", "/">>, <<"s", "u", "b", "/", "d", ".", "g", "o">>,
   <<"*", "*", "/", "d", ".", "g", "o">>, <<"/", "a", ".", "g", "o">>,
   <<"d", "?", "g", "o">>}

RuleFiles == UNION {[1..n -> RuleLines] : n \in 0..MaxRuleLines}

RulesFS == (<<".gitignore">> :> "data") @@ ScenarioFS

RuleSetups ==
  {[fs |-> RulesFS, hasRules |-> TRUE, rules |-> lines] : lines \in RuleFiles}
  \cup {[fs |-> ScenarioFS, hasRules |-> FALSE, rules |-> << >>]}

InitRules == \E setup \in RuleSetups : InitWith(setup)

NextRules ==
  \/ PressIgnore
  \/ PressNesting
  \/ WindowSize

SpecRules == InitRules /\ [][NextRules]_vars

(***************************************************************************)
(* Sessions in the skate store.  A session has an ID, a root path, a start *)
(* time (wall clock and monotonic reading) and the map of changed files.   *)
(* json.Marshal writes the exported fields in order, a map with its keys   *)
(* sorted, a time by its wall clock; json.Unmarshal reads the members      *)
(* back by name.  skate keeps one value per key: get fails on a key that   *)
(* is not there.                                                           *)
(***************************************************************************)
SessionIDs == {"s1", "s2"}

ChangedMaps ==
  {<< >>, ("a.go" :> TRUE), ("a.go" :> TRUE) @@ ("b.go" :> TRUE) @@ ("sub" :> FALSE)}

Sessions ==
  [ID : SessionIDs, RootPath : {RootPath, <<"/", "test">>},
   StartTime : {[wall |-> 7, mono |-> 3]}, Changed : ChangedMaps]

\* no session: the nil pointer
NoSession == [nil |-> TRUE]

\* The members of a JSON object, a map as the list of its members in key
\* order.
Marshal(session) ==
  << <<"ID", session.ID>>, <<"RootPath", session.RootPath>>,
     <<"StartTime", session.StartTime.wall>>,
     <<"Changed", [i \in 1..Cardinality(DOMAIN session.Changed) |->
                    LET file == CHOOSE f \in DOMAIN session.Changed :
                                  Cardinality({g \in DOMAIN session.Changed :
                                                 Rank(g) < Rank(f)}) = i - 1
                    IN <<file, session.Changed[file]>>]>> >>

Member(data, name) == data[CHOOSE i \in 1..Len(data) : data[i][1] = name][2]

Unmarshal(data) ==
  LET changed == Member(data, "Changed")
  IN [ID |-> Member(data, "ID"), RootPath |-> Member(data, "RootPath"),
      StartTime |-> [wall |-> Member(data, "StartTime"), mono |-> 0],
      Changed |-> [f \in {changed[i][1] : i \in 1..Len(changed)} |->
                     (CHOOSE i \in 1..Len(changed) : changed[i][1] = f) \in
                       {i \in 1..Len(changed) : changed[i][2]}]]

\* fmt.Sprintf("session@vinw-%s", sessionID)
SessionKey(sessionID) == <<"session@vinw-", sessionID>>

\* Mutant: every session is saved under the same key.
saveSessionSkate_OneKey(store, session) ==
  (SessionKey("") :> Marshal(session)) @@ store

\* skate set key data: the store after the save
saveSessionSkate(store, session) ==
  (SessionKey(session.ID) :> Marshal(session)) @@ store

\* skate get key: no session and no error when get fails
loadSessionSkate(store, sessionID) ==
  IF SessionKey(sessionID) \notin DOMAIN store
  THEN [session |-> NoSession, err |-> FALSE]
  ELSE [session |-> Unmarshal(store[SessionKey(sessionID)]), err |-> FALSE]

sessionExistsSkate(store, sessionID) == SessionKey(sessionID) \in DOMAIN store

\* skate delete key: the store after the delete
deleteSessionSkate(store, sessionID) ==
  Restrict(store, DOMAIN store \ {SessionKey(sessionID)})

\* One call of a session function, as recorded: which, for which ID, and
\* what it returned.
SessionEvent(kind, id, returned) ==
  [kind |-> kind, err |-> FALSE, path |-> NoPath, id |-> id, returned |-> returned]

SaveSession ==
  \E session \in Sessions :
    /\ slot' = saveSessionSkate(slot, session)
    /\ ev' = SessionEvent("saveSession", session.ID, session)
    /\ UNCHANGED <<m, fs, git, reads, used, rulesFile, call, timer>>

LoadSession ==
  \E id \in SessionIDs :
    /\ ev' = SessionEvent("loadSession", id, loadSessionSkate(slot, id))
    /\ UNCHANGED <<m, fs, git, reads, used, rulesFile, slot, call, timer>>

SessionExists ==
  \E id \in SessionIDs :
    /\ ev' = SessionEvent("sessionExists", id, sessionExistsSkate(slot, id))
    /\ UNCHANGED <<m, fs, git, reads, used, rulesFile, slot, call, timer>>

DeleteSession ==
  \E id \in SessionIDs :
    /\ slot' = deleteSessionSkate(slot, id)
    /\ ev' = SessionEvent("deleteSession", id, NoSession)
    /\ UNCHANGED <<m, fs, git, reads, used, rulesFile, call, timer>>

NextStore == SaveSession \/ LoadSession \/ SessionExists \/ DeleteSession

SpecStore == InitMutate /\ [][NextStore]_vars

(***************************************************************************)
(* Notions the properties share.                                           *)
(***************************************************************************)
\* The path on the cursor's line: the file there, else the directory.
CursorPath(mm) == CurrentSelection(mm)

Range(fn) == {fn[x] : x \in DOMAIN fn}

\* The paths that have a line in the position index.
IndexedPaths(mm) == Range(mm.fileMap) \cup Range(mm.dirMap)

\* The line of an indexed path.
LineOf(mm, p) ==
  IF p \in Range(mm.fileMap) THEN FindLine(mm.fileMap, p, 0) ELSE FindLine(mm.dirMap, p, 0)

\* The handlers that rebuild the tree on a trigger of the coordinator.
RebuildKinds ==
  {"tick", "ignore", "nesting", "hidden", "expand", "collapse", "fullRefresh",
   "create", "delete"}

\* C1 (as stated): after every event the cursor is within the rendered
\* lines, 0 <= selectedLine <= maxLine.
C1_CursorInBounds == 0 <= m.selectedLine /\ m.selectedLine <= m.maxLine

\* C2 (as stated): whatever handler rebuilds the tree, if the path under the
\* cursor (file or directory) is still indexed after the rebuild, the cursor
\* is on its line afterwards.
C2_IdentityStable ==
  [][(/\ ev'.kind \in RebuildKinds
      /\ CursorPath(m) # NoPath
      /\ CursorPath(m) \in IndexedPaths(m'))
     => CursorPath(m') = CursorPath(m)]_vars

\* C3 (as stated): when an entry listed before the cursor's entry is deleted
\* through the confirmation dialog, the cursor follows its entry to the new
\* line instead of staying on the old line number.
C3_CursorFollowsEntry ==
  [][(/\ ev'.kind = "delete" /\ ~ev'.err
      /\ CursorPath(m) # NoPath
      /\ ev'.path \in IndexedPaths(m)
      /\ ev'.path # CursorPath(m)
      /\ LineOf(m, ev'.path) < m.selectedLine
      /\ CursorPath(m) \in IndexedPaths(m'))
     => CursorPath(m') = CursorPath(m)]_vars

\* C4: a build lists only the root and the directories it expands: a
\* directory that is not in expandedDirs while nesting is off is never read.
C4_CollapsedNotRead ==
  \A d \in reads : d = Root \/ m.nestingEnabled \/ d \in m.expandedDirs

\* A collapsed directory is on display and was not read, next to an
\* expanded one that was.
C4_Witness ==
  /\ ~m.nestingEnabled
  /\ \E d \in Range(m.dirMap) : d \notin reads /\ IsDir(fs, d)
  /\ \E d \in Range(m.dirMap) : d \in reads

\* C5: between two messages the tree, the position index, the cached lines
\* and maxLine all come from the same build.
C5_OneBuild ==
  LET shown == Entries(m.tree)
      n == Len(shown)
  IN /\ m.treeLines = TreeLines(m.tree)
     /\ m.maxLine = Len(m.treeLines) - 1
     /\ m.fileMap = [l \in {i \in 1..n : ~shown[i].isDir} |-> shown[l].path]
     /\ m.dirMap = [l \in {i \in 1..n : shown[i].isDir} |-> shown[l].path]

C5_Witness == ev.kind = "nesting" /\ m.nestingEnabled /\ Len(m.treeLines) = 6

FetchKinds == {"tick", "fullRefresh", "gitRefresh"}

C7_RebuildAfterMutation ==
  [][ev'.kind \in {"create", "delete"} =>
       LET b == Build(m', fs')
       IN /\ m'.tree = b.tree
          /\ m'.fileMap = b.fileMap
          /\ m'.dirMap = b.dirMap
          /\ m'.treeLines = TreeLines(b.tree)
          /\ m'.viewport = renderTreeWithSelectionOptimized(m'.treeLines, m'.selectedLine).content]_vars

\* A failed operation after a change made by another process.
C7_Witness ==
  /\ ev.kind \in {"create", "delete"} /\ ev.err
  /\ used.external = 1
  /\ m.tree = Build(m, fs).tree

\* C8: a create on a path that exists returns an error and leaves the
\* filesystem, the entry's content included, as it was.
C8_CreateCollision ==
  [][(ev'.kind = "create" /\ Exists(fs, CreateTarget(m))) => (ev'.err /\ fs' = fs)]_vars

\* A create was refused on a file that still has its data.
C8_Witness ==
  /\ ev.kind = "create" /\ ev.err
  /\ ev.path \in DOMAIN fs /\ fs[ev.path] = "data"

\* C9: a delete whose target is absent or of the wrong kind returns an error
\* and changes nothing; otherwise DeleteFile removes the file, and
\* DeleteDirectory the directory with everything below it.
C9_DeleteChecked ==
  [][ev'.kind = "delete" =>
       LET p == m.deletePending.path
           asDir == m.deletePending.isDir
       IN IF ~Exists(fs, p) \/ asDir # IsDir(fs, p)
          THEN ev'.err /\ fs' = fs
          ELSE /\ ~ev'.err
               /\ fs' = Restrict(fs, {q \in DOMAIN fs :
                                        IF asDir THEN ~IsPrefix(p, q) ELSE q # p})]_vars

\* A delete of the wrong kind was refused: the target is still there.
C9_Witness == ev.kind = "delete" /\ ev.err /\ ev.path \in DOMAIN fs

(***************************************************************************)
(* The example directory: a.go unmodified, b.go with 2 changed lines,      *)
(* c.go untracked, sub/ with d.go, under the default policy.               *)
(***************************************************************************)
ScenarioBuilt(expanded) ==
  /\ ev.kind \in RebuildKinds \cup {"init", "winsize"}
  /\ fs = ScenarioFS
  /\ m.gitignore = << >>
  /\ m.diffCache = GetAllGitDiffs(ScenarioGit)
  /\ m.respectIgnore /\ ~m.showHidden /\ ~m.nestingEnabled
  /\ m.expandedDirs = expanded

Plain(depth, name) == [depth |-> depth, name |-> name, suffix |-> <<"", 0>>]

ScenarioLines ==
  <<RootLine, Plain(1, "a.go"),
    [depth |-> 1, name |-> "b.go", suffix |-> <<"+", 2>>],
    [depth |-> 1, name |-> "c.go", suffix |-> <<"new", 0>>]>>

\* C10 (as stated): fileAt = {0: a.go, 1: b.go, 2: c.go}, dirAt = {3: sub};
\* expanding sub/ gives 5 lines and fileAt[4] = sub/d.go.
C10_AsStated ==
  /\ ScenarioBuilt({}) =>
       /\ m.fileMap = (0 :> <<"a.go">>) @@ (1 :> <<"b.go">>) @@ (2 :> <<"c.go">>)
       /\ m.dirMap = (3 :> <<"sub">>)
  /\ ScenarioBuilt({<<"sub">>}) =>
       /\ Len(m.treeLines) = 5
       /\ Lookup(m.fileMap, 4, NoPath) = <<"sub", "d.go">>

\* C10 (amended): the root takes line 0, so the entries are a.go, b.go (+2),
\* c.go (new), sub/ on lines 1 to 4, fileAt = {1: a.go, 2: b.go, 3: c.go},
\* dirAt = {4: sub}; expanding sub/ gives 6 lines and fileAt[5] = sub/d.go.
C10_Scenario ==
  /\ ScenarioBuilt({}) =>
       /\ m.treeLines = ScenarioLines \o <<[depth |-> 1, name |-> "sub", suffix |-> <<"/", 0>>]>>
       /\ m.fileMap = (1 :> <<"a.go">>) @@ (2 :> <<"b.go">>) @@ (3 :> <<"c.go">>)
       /\ m.dirMap = (4 :> <<"sub">>)
  /\ ScenarioBuilt({<<"sub">>}) =>
       /\ m.treeLines = ScenarioLines \o <<Plain(1, "sub"), Plain(2, "d.go")>>
       /\ m.fileMap = (1 :> <<"a.go">>) @@ (2 :> <<"b.go">>) @@ (3 :> <<"c.go">>)
                      @@ (5 :> <<"sub", "d.go">>)
       /\ m.dirMap = (4 :> <<"sub">>)

C10_Witness == ScenarioBuilt({<<"sub">>}) /\ ev.kind = "expand" /\ Len(m.treeLines) = 6

(***************************************************************************)
(* The position index of one build.                                        *)
(***************************************************************************)
\* The lines of the position index and the path indexed at each.
IndexedLines(mm) == DOMAIN mm.fileMap \cup DOMAIN mm.dirMap

PathAt(mm, n) == IF n \in DOMAIN mm.fileMap THEN mm.fileMap[n] ELSE mm.dirMap[n]

\* p comes before q in a depth-first pre-order walk that visits the entries
\* of a directory in listing order: a directory before what is under it,
\* else the order of the names where the two paths part.
RECURSIVE PreOrderBefore(_, _)
PreOrderBefore(p, q) ==
  IF p = << >> THEN q # << >>
  ELSE IF q = << >> THEN FALSE
  ELSE IF Head(p) = Head(q) THEN PreOrderBefore(Tail(p), Tail(q))
  ELSE Rank(Head(p)) < Rank(Head(q))

\* C11: no line number is a key of both fileAt and dirAt; the line numbers
\* are 1..maxLine, assigned in depth-first pre-order in listing order; the
\* entry indexed at line n is the entry on rendered line n (its name, its
\* depth, and the "/" of a collapsed directory only on a line of dirAt).
C11_PositionIndex ==
  /\ DOMAIN m.fileMap \cap DOMAIN m.dirMap = {}
  /\ IndexedLines(m) = 1..m.maxLine
  /\ Len(Entries(m.tree)) = m.maxLine
  /\ Len(m.treeLines) = m.maxLine + 1
  /\ \A a, b \in IndexedLines(m) : a < b => PreOrderBefore(PathAt(m, a), PathAt(m, b))
  /\ \A n \in IndexedLines(m) :
       /\ Entries(m.tree)[n].path = PathAt(m, n)
       /\ Entries(m.tree)[n].isDir = (n \in DOMAIN m.dirMap)
       /\ m.treeLines[n + 1].name = Base(PathAt(m, n))
       /\ m.treeLines[n + 1].depth = Len(PathAt(m, n))
       /\ m.treeLines[n + 1].suffix[1] = "/" => n \in DOMAIN m.dirMap

\* A file under an expanded directory is indexed before a file of the root:
\* the counter went down into the directory and came back.
C11_Witness ==
  \E a \in DOMAIN m.fileMap, b \in DOMAIN m.fileMap, d \in DOMAIN m.dirMap :
    /\ d < a /\ a < b
    /\ Len(m.fileMap[a]) = 2 /\ Dir(m.fileMap[a]) = m.dirMap[d]
    /\ Len(m.fileMap[b]) = 1

(***************************************************************************)
(* What a build shows of a directory.                                      *)
(***************************************************************************)
\* The state is the one a build left: no other process has acted since.
JustBuilt == ev.kind \in RebuildKinds \cup {"init"}

\* The indexed paths directly in d, and those anywhere under it.
ChildrenIndexed(mm, d) == {p \in IndexedPaths(mm) : Dir(p) = d}

DescendantsIndexed(mm, d) == {p \in IndexedPaths(mm) : p # d /\ IsPrefix(d, p)}

\* The children of d's node in the tree.
ChildrenInTree(mm, d) ==
  LET shown == Entries(mm.tree)
  IN UNION {Range([i \in 1..Len(shown[n].children) |-> shown[n].children[i].path]) :
              n \in {i \in 1..Len(shown) : shown[i].path = d}}

\* The entries of d that pass the visibility filter.
Listed(mm, f, d) ==
  IF Readable(f, d)
  THEN {p \in {Join(d, ReadDir(f, d)[i]) : i \in 1..Len(ReadDir(f, d))} : Included(Cfg(mm, f), p)}
  ELSE {}

\* C12: a displayed directory's children are in the tree and the position
\* index iff nesting is on or its path is in the expansion state; otherwise
\* it contributes exactly one line, a key of dirAt and not of fileAt, and
\* nothing under it has a line.
C12_ChildrenIffExpanded ==
  JustBuilt =>
    \A d \in Range(m.dirMap) :
      /\ Cardinality({n \in DOMAIN m.dirMap : m.dirMap[n] = d}) = 1
      /\ d \notin Range(m.fileMap)
      /\ IF m.nestingEnabled \/ d \in m.expandedDirs
         THEN /\ ChildrenIndexed(m, d) = Listed(m, fs, d)
              /\ ChildrenInTree(m, d) = Listed(m, fs, d)
         ELSE /\ DescendantsIndexed(m, d) = {}
              /\ ChildrenInTree(m, d) = {}
              /\ LineOf(m, d) < m.maxLine =>
                   Len(PathAt(m, LineOf(m, d) + 1)) <= Len(d)

\* One directory is open with its children on display, another is closed
\* although it has entries.
C12_Witness ==
  /\ JustBuilt /\ ~m.nestingEnabled
  /\ \E d \in Range(m.dirMap) \cap m.expandedDirs : ChildrenIndexed(m, d) # {}
  /\ \E d \in Range(m.dirMap) \ m.expandedDirs :
       Listed(m, fs, d) # {} /\ DescendantsIndexed(m, d) = {}

Injective(fn) == \A a, b \in DOMAIN fn : fn[a] = fn[b] => a = b

\* C17: within one build every relative path occurs at most once: fileAt
\* and dirAt are each injective, no path is a value of both, and no two
\* entries of the tree have the same path.
C17_PathsUnique ==
  /\ Injective(m.fileMap)
  /\ Injective(m.dirMap)
  /\ Range(m.fileMap) \cap Range(m.dirMap) = {}
  /\ Injective([i \in 1..Len(Entries(m.tree)) |-> Entries(m.tree)[i].path])
  /\ Cardinality(IndexedPaths(m)) = m.maxLine

\* Two files of the same name in different directories are both indexed.
C17_Witness ==
  \E a, b \in DOMAIN m.fileMap :
    a # b /\ Base(m.fileMap[a]) = Base(m.fileMap[b]) /\ m.fileMap[a] # m.fileMap[b]

(***************************************************************************)
(* A build after a fetch that found no repository.                         *)
(***************************************************************************)
\* The suffixes that are change annotations.
IsAnnotation(suffix) == suffix[1] \in {"+", "new"}

\* C20: when git cannot be run (or there is no repository) GetAllGitDiffs
\* returns an empty map and no error, and the build that follows renders
\* the complete tree with no change annotation on any line.
C20_NoRepository ==
  (ev.kind \in {"tick", "fullRefresh"} /\ git.status = NoGit) =>
    /\ ~ev.err
    /\ GetAllGitDiffs(git.status) = << >>
    /\ m.diffCache = << >>
    /\ \A i \in 1..Len(m.treeLines) : ~IsAnnotation(m.treeLines[i].suffix)
    /\ m.treeLines = TreeLines(m.tree)
    /\ ChildrenIndexed(m, Root) = Listed(m, fs, Root)
    /\ \A d \in Range(m.dirMap) :
         (m.nestingEnabled \/ d \in m.expandedDirs) =>
           ChildrenIndexed(m, d) = Listed(m, fs, d)

\* A tick found no repository: b.go, annotated at the start, is on display
\* next to the entries of an open directory.
C20_Witness ==
  /\ ev.kind = "tick" /\ git.status = NoGit
  /\ <<"b.go">> \in Range(m.fileMap)
  /\ \E d \in Range(m.dirMap) : ChildrenIndexed(m, d) # {}

(***************************************************************************)
(* The expansion state across one event.                                   *)
(***************************************************************************)
\* What a handler of the given kind may do to expandedDirs.
ExpansionFrame(old, new, kind) ==
  IF kind = "nesting" /\ new.nestingEnabled THEN new.expandedDirs = {}
  ELSE IF kind = "expand"
  THEN /\ old.selectedLine \in DOMAIN old.dirMap
       /\ new.expandedDirs = old.expandedDirs \cup {old.dirMap[old.selectedLine]}
  ELSE IF kind = "collapse"
  THEN /\ old.selectedLine \in DOMAIN old.dirMap
       /\ new.expandedDirs = old.expandedDirs \ {old.dirMap[old.selectedLine]}
  ELSE new.expandedDirs = old.expandedDirs

\* C13: expandedDirs is emptied when nesting is toggled on, gains or loses
\* exactly the cursor's directory on an expand or a collapse, and is left
\* as it was by every other event: whichever message comes next in a state
\* of a session (a key, typed text, a tick, a window size), its handler
\* changes expandedDirs in that way and no other.
C13_ExpansionFrame ==
  m.ready =>
    /\ \A k \in Keys :
         LET r == HandleKey(m, fs, git.status, k, "")
         IN /\ ExpansionFrame(m, r.m, r.kind)
            /\ (r.kind = "nesting" /\ ~r.m.nestingEnabled) => r.m.expandedDirs = m.expandedDirs
    /\ \A text \in TypedValues :
         HandleKey(m, fs, git.status, "x", text).m.expandedDirs = m.expandedDirs
    /\ HandleTick(m, fs, git.status).m.expandedDirs = m.expandedDirs
    /\ HandleWindowSize(m, fs).m.expandedDirs = m.expandedDirs

\* A directory was created while another one was open, and it stayed open.
C13_Witness ==
  /\ ev.kind \in {"create", "delete"} /\ ~ev.err
  /\ m.expandedDirs # {}
  /\ ~m.nestingEnabled

(***************************************************************************)
(* Key "i" twice.                                                          *)
(***************************************************************************)
\* The tree on display is the one the filesystem as it is now gives.
TreeCurrent(mm, f) == mm.tree = Build(mm, f).tree

\* C14 (as stated): turning the rules off and on again, with no filesystem
\* change and no other event in between, gives the rendered text the tree
\* had before the first toggle.
C14_AsStated ==
  (m.ready /\ m.respectIgnore) => KeyI(KeyI(m, fs).m, fs).m.treeLines = m.treeLines

\* C14 (amended): the same, when the filesystem has not changed since the
\* tree before the first toggle was built either; the toggles rebuild from
\* the filesystem, so a change made before them shows up after them.
C14_ToggleRoundTrip ==
  (m.ready /\ m.respectIgnore /\ TreeCurrent(m, fs)) =>
    LET off == KeyI(m, fs)
        on == KeyI(off.m, fs)
    IN /\ off.kind = "ignore" /\ ~off.m.respectIgnore
       /\ on.kind = "ignore" /\ on.m.respectIgnore
       /\ on.m.treeLines = m.treeLines
       /\ on.m.tree = m.tree

\* The rules were turned off and on again, and they hide an entry that was
\* on display in between.
C14_Witness ==
  /\ ev.kind = "ignore" /\ m.respectIgnore /\ TreeCurrent(m, fs)
  /\ \E p \in DOMAIN fs : IsIgnored(m.gitignore, p) /\ p \notin IndexedPaths(m)
                          /\ p \in IndexedPaths(KeyI(m, fs).m)

(***************************************************************************)
(* The visibility filter.                                                  *)
(***************************************************************************)
\* The entries of the directories the last build listed.
Traversed == {p \in DOMAIN fs : Dir(p) \in reads /\ Readable(fs, Dir(p))}

\* C15: an entry of a traversed directory is in the tree iff it is not
\* named .git, and its name does not start with "." or it is .gitignore or
\* hidden entries are shown, and the rules are not respected or it matches
\* none of them; .git is left out under every combination of the flags.
C15_Visibility ==
  /\ JustBuilt =>
       \A p \in Traversed :
         p \in IndexedPaths(m) <=>
           /\ Base(p) # ".git"
           /\ Chars(Base(p))[1] # "." \/ Base(p) = ".gitignore" \/ m.showHidden
           /\ ~m.respectIgnore \/ ~IsIgnored(m.gitignore, p)
  /\ \A p \in IndexedPaths(m) : Base(p) # ".git"

\* Hidden entries are shown and the rules are off: the hidden file and the
\* file the rules match are on display, .git is there and is not.
C15_Witness ==
  /\ JustBuilt /\ m.showHidden /\ ~m.respectIgnore
  /\ <<".git">> \in DOMAIN fs
  /\ {<<".env">>, <<".gitignore">>} \subseteq IndexedPaths(m)
  /\ \E p \in IndexedPaths(m) : IsIgnored(m.gitignore, p)

(***************************************************************************)
(* Rendering the cached lines.                                             *)
(***************************************************************************)
\* The cursor values a render can be asked for: the lines, and one value
\* out of range on each side.
Cursors == -1..(m.maxLine + 1)

\* C18: rendering is pure: rendering the same cached lines with the same
\* cursor twice gives the same output, and a call leaves the cached lines
\* as they were.
C18_RenderPure ==
  \A c \in Cursors :
    LET first == renderTreeWithSelectionOptimized(m.treeLines, c)
        second == renderTreeWithSelectionOptimized(first.lines, c)
    IN /\ first.lines = m.treeLines
       /\ second.lines = m.treeLines
       /\ second.content = first.content
       /\ Len(first.content) = Len(m.treeLines)
       /\ \A i \in 1..Len(m.treeLines) :
            /\ first.content[i].line = m.treeLines[i]
            /\ first.content[i].hl <=> (i = c + 1)

\* The cursor was moved below the root line: the viewport holds a render of
\* the cached lines with that line highlighted.
C18_Witness ==
  /\ ev.kind = "other" /\ m.selectedLine > 0 /\ m.selectedLine <= m.maxLine
  /\ m.viewport = renderTreeWithSelectionOptimized(m.treeLines, m.selectedLine).content
  /\ m.viewport[m.selectedLine + 1].hl

(***************************************************************************)
(* The change map a fetch returns.                                         *)
(***************************************************************************)
\* C19: GetAllGitDiffs gives each path the sum of its unstaged and staged
\* counts when it is in both lists, the single count when it is in one,
\* and -1 for every untracked path; no other path has a count.
C19_FetchAll ==
  (ev.kind \in FetchKinds /\ git.status.ok) =>
    LET g == git.status
    IN /\ m.diffCache = GetAllGitDiffs(g)
       /\ DOMAIN m.diffCache = DOMAIN g.unstaged \cup DOMAIN g.staged \cup g.untracked
       /\ \A p \in g.untracked : m.diffCache[p] = -1
       /\ \A p \in (DOMAIN g.unstaged \cap DOMAIN g.staged) \ g.untracked :
            m.diffCache[p] = g.unstaged[p] + g.staged[p]
       /\ \A p \in (DOMAIN g.unstaged \ DOMAIN g.staged) \ g.untracked :
            m.diffCache[p] = g.unstaged[p]
       /\ \A p \in (DOMAIN g.staged \ DOMAIN g.unstaged) \ g.untracked :
            m.diffCache[p] = g.staged[p]

\* A fetch found b.go with 1 unstaged and 2 staged lines, a.go staged only
\* and sub/d.go untracked.
C19_Witness ==
  /\ ev.kind \in FetchKinds /\ git.status = StagedGit
  /\ m.diffCache[<<"b.go">>] = 3
  /\ m.diffCache[<<"a.go">>] = 1
  /\ m.diffCache[<<"sub", "d.go">>] = -1

(***************************************************************************)
(* The lines of a build.                                                   *)
(***************************************************************************)
\* C30: the root is on line 0 and is a key of neither index; every line
\* from 1 to maxLine is a key of exactly one of fileAt and dirAt, so
\* maxLine is the number of fileAt entries plus the number of dirAt
\* entries.
C30_LineCount ==
  /\ m.treeLines[1] = RootLine
  /\ 0 \notin DOMAIN m.fileMap /\ 0 \notin DOMAIN m.dirMap
  /\ Root \notin IndexedPaths(m)
  /\ \A n \in 1..m.maxLine : (n \in DOMAIN m.fileMap) # (n \in DOMAIN m.dirMap)
  /\ \A n \in DOMAIN m.fileMap \cup DOMAIN m.dirMap : 1 <= n /\ n <= m.maxLine
  /\ m.maxLine = Cardinality(DOMAIN m.fileMap) + Cardinality(DOMAIN m.dirMap)

\* A tick built a tree with several files and several directories.
C30_Witness ==
  /\ ev.kind = "tick"
  /\ Cardinality(DOMAIN m.fileMap) >= 3
  /\ Cardinality(DOMAIN m.dirMap) >= 2

(***************************************************************************)
(* Selecting a file for the viewer.                                        *)
(***************************************************************************)
\* The cursor is on a file line whose target is there and is no directory.
OnFile(mm, f) ==
  /\ mm.selectedLine \in DOMAIN mm.fileMap
  /\ mm.fileMap[mm.selectedLine] \in DOMAIN f
  /\ f[mm.fileMap[mm.selectedLine]] = "data"

\* What the handlers other than the overlays keep of the model on a select.
Browsing(mm) ==
  [tree |-> mm.tree, treeLines |-> mm.treeLines, maxLine |-> mm.maxLine,
   fileMap |-> mm.fileMap, dirMap |-> mm.dirMap, selectedLine |-> mm.selectedLine,
   expandedDirs |-> mm.expandedDirs, respectIgnore |-> mm.respectIgnore,
   showHidden |-> mm.showHidden, nestingEnabled |-> mm.nestingEnabled]

\* C21: select publishes the root joined with the cursor's fileAt entry
\* under the key of this session, and only when the cursor is on a file
\* line whose target exists and is no directory; on a directory line or
\* the root line nothing is written; whether the write was made or failed,
\* the tree, the position index, the cursor, the expansion state and the
\* flags are as before, and so is the filesystem; the model returned is
\* the one the handler computes from the model and the filesystem, the
\* store not being among what it reads.
C21_SelectPublishes ==
  [][ev'.kind = "select" =>
       /\ OnFile(m, fs) =>
            /\ KeySelect(m, fs).publish =
                 (SlotKey(SessionID) :> FullPath(m.fileMap[m.selectedLine]))
            /\ slot' \in {slot, (SlotKey(SessionID) :> FullPath(m.fileMap[m.selectedLine])) @@ slot}
       /\ ~OnFile(m, fs) => KeySelect(m, fs).publish = NoWrites /\ slot' = slot
       /\ slot'[SlotKey(OtherSessionID)] = slot[SlotKey(OtherSessionID)]
       /\ Browsing(m') = Browsing(m)
       /\ \E k \in {"enter", " "} : m' = HandleKey(m, fs, git.status, k, "").m
       /\ fs' = fs /\ ~ev'.err]_vars

\* A file under an open directory was selected and its absolute path is in
\* the slot of this session.
C21_Witness ==
  /\ ev.kind = "select"
  /\ OnFile(m, fs) /\ Len(m.fileMap[m.selectedLine]) = 2
  /\ SlotKey(SessionID) \in DOMAIN slot
  /\ slot[SlotKey(SessionID)] = RootPath \o m.fileMap[m.selectedLine]

(***************************************************************************)
(* The rules as loaded.                                                    *)
(***************************************************************************)
Blank(n) == [i \in 1..n |-> " "]

\* t is line without the blanks at its two ends.
IsTrimOf(t, line) ==
  /\ t = << >> \/ (t[1] # " " /\ t[Len(t)] # " ")
  /\ \E a \in 0..Len(line) :
       /\ a + Len(t) <= Len(line)
       /\ line = Blank(a) \o t \o Blank(Len(line) - a - Len(t))

\* The lines that give a pattern: not blank and, after the blanks at the
\* front, not starting with "#".
GivesPattern(line) ==
  \E i \in 1..Len(line) :
    /\ line[i] \notin {" ", "#"}
    /\ \A j \in 1..(i - 1) : line[j] = " "

\* The paths the matcher is asked about.
RulePaths ==
  UNION {[1..n -> {"d.go", "sub"}] : n \in 1..3} \cup {<<"a.go">>, <<"sub", "a.go">>}

\* C22: NewGitIgnore returns exactly the trimmed lines of the root's
\* .gitignore that are not empty and do not begin with "#", in file order;
\* with no file it returns the empty rule set, under which IsIgnored is
\* false for every path.
C22_Load ==
  LET lines == rulesFile.lines
      kept == {i \in 1..Len(lines) : GivesPattern(lines[i])}
      Before(i) == Cardinality({j \in kept : j < i})
  IN /\ rulesFile.present =>
          /\ Len(m.gitignore) = Cardinality(kept)
          /\ \A i \in kept : IsTrimOf(m.gitignore[Before(i) + 1], lines[i])
     /\ ~rulesFile.present => m.gitignore = << >>
     /\ m.gitignore = << >> =>
          \A p \in RulePaths \cup DOMAIN fs : ~IsIgnored(m.gitignore, p)
     /\ m.gitignore = NewGitIgnore(rulesFile.present, rulesFile.lines)

\* A file of two lines, a comment after blanks and a pattern between
\* blanks, gave one pattern, and the rules were applied in a build.
C22_Witness ==
  /\ rulesFile.present /\ Len(rulesFile.lines) = 2
  /\ rulesFile.lines[1] = <<" ", "#", "x">>
  /\ rulesFile.lines[2] = <<" ", "b", ".", "g", "o", " ">>
  /\ m.gitignore = << <<"b", ".", "g", "o">> >>
  /\ ev.kind = "ignore" /\ m.respectIgnore

(***************************************************************************)
(* The rules as applied.                                                   *)
(***************************************************************************)
\* The pattern matches one of the names the path is made of.
MatchesSegment(pattern, p) == \E k \in 1..Len(p) : Match(pattern, Chars(p[k]))

\* C23: IsIgnored is true of a path iff one of the loaded patterns matches
\* it; a pattern with no "/" matches when it matches the basename or any
\* one segment of the path, so every path below a directory whose name the
\* pattern matches is ignored, at any depth; a build that respects the
\* rules shows no ignored path.
C23_IsIgnored ==
  /\ \A p \in RulePaths :
       /\ IsIgnored(m.gitignore, p) <=>
            \E i \in 1..Len(m.gitignore) : matchPattern(p, m.gitignore[i])
       /\ \A i \in 1..Len(m.gitignore) :
            ~ContainsSlash(m.gitignore[i]) =>
              /\ matchPattern(p, m.gitignore[i]) <=> MatchesSegment(m.gitignore[i], p)
              /\ Match(m.gitignore[i], Chars(Base(p))) => IsIgnored(m.gitignore, p)
              /\ \A k \in 1..(Len(p) - 1) :
                   Match(m.gitignore[i], Chars(p[k])) => IsIgnored(m.gitignore, p)
  /\ (ev.kind \in {"ignore", "nesting", "winsize"} /\ m.respectIgnore) =>
       \A p \in IndexedPaths(m) : ~IsIgnored(m.gitignore, p)

\* The one pattern is the name of a directory: the file two levels below
\* it is ignored, and with the rules respected the directory is not shown.
C23_Witness ==
  /\ m.gitignore = << <<"s", "u", "b">> >>
  /\ IsIgnored(m.gitignore, <<"sub", "sub", "d.go">>)
  /\ ~IsIgnored(m.gitignore, <<"a.go">>)
  /\ ev.kind = "nesting" /\ m.respectIgnore /\ m.nestingEnabled
  /\ <<"sub">> \in DOMAIN fs /\ <<"sub">> \notin IndexedPaths(m)

(***************************************************************************)
(* Sessions saved, loaded and deleted.                                     *)
(***************************************************************************)
\* What the claim compares of two sessions.
SameSession(a, b) ==
  /\ a # NoSession /\ b # NoSession
  /\ a.ID = b.ID /\ a.RootPath = b.RootPath
  /\ DOMAIN a.Changed = DOMAIN b.Changed
  /\ \A f \in DOMAIN a.Changed : a.Changed[f] = b.Changed[f]

RelocateKinds ==
  {"tick", "ignore", "nesting", "hidden", "expand", "collapse", "fullRefresh"}

\* C25 (as stated): on every rebuild, when the path that was under the
\* cursor before the rebuild is in neither index of the rebuilt tree, the
\* cursor is on line 0 afterwards.
C25_FallbackToRoot ==
  [][(/\ ev'.kind \in RelocateKinds
      /\ CursorPath(m) # NoPath
      /\ CursorPath(m) \notin IndexedPaths(m'))
     => m'.selectedLine = 0]_vars

(***************************************************************************)
(* The delete confirmation.                                                *)
(***************************************************************************)
\* C26 (as stated): DeleteFile or DeleteDirectory is invoked only by a key
\* pressed while the delete confirmation is the screen View draws, not the
\* viewer popup, the help or the creation prompt.
C26_ConfirmWhileShown ==
  [][ev'.kind = "delete" => View(m) = "delete"]_vars

\* C27 (as stated): while a deletion is pending, a key that neither
\* confirms nor cancels changes neither the cursor, the policy flags, the
\* expanded directories, the tree nor the pending target, so that the entry
\* deleted on confirm is the one under the cursor at that moment.
C27_PendingFrame ==
  [][/\ (/\ m.deletePending # NoDeletion
         /\ ev'.kind \notin {"delete", "tick", "winsize"}
         /\ m'.deletePending # NoDeletion)
        => /\ m'.selectedLine = m.selectedLine
           /\ m'.respectIgnore = m.respectIgnore
           /\ m'.nestingEnabled = m.nestingEnabled
           /\ m'.showHidden = m.showHidden
           /\ m'.expandedDirs = m.expandedDirs
           /\ m'.tree = m.tree
           /\ m'.deletePending = m.deletePending
     /\ ev'.kind = "delete" => ev'.path = CursorPath(m)]_vars

(***************************************************************************)
(* The refresh of the annotations alone.                                   *)
(***************************************************************************)
\* The annotation a file has under a change map.
AnnotationOf(changes, path) ==
  Suffix([isDir |-> FALSE, diff |-> Lookup(changes, path, 0)])

\* C28 (as stated): after key "r" the change map is the one just fetched and
\* every file line on display carries the annotation that map gives its
\* file, while the tree, the position index, the cursor and the expanded
\* directories are as before.
C28_AnnotationsRefreshed ==
  [][ev'.kind = "gitRefresh" =>
       /\ m'.diffCache = GetAllGitDiffs(git.status)
       /\ m'.tree = m.tree /\ m'.fileMap = m.fileMap /\ m'.dirMap = m.dirMap
       /\ m'.selectedLine = m.selectedLine /\ m'.expandedDirs = m.expandedDirs
       /\ Len(m'.viewport) = m'.maxLine + 1
       /\ \A l \in DOMAIN m'.fileMap :
            m'.viewport[l + 1].line.suffix = AnnotationOf(m'.diffCache, m'.fileMap[l])]_vars

(***************************************************************************)
(* The viewport and the cached lines.                                      *)
(***************************************************************************)
\* C29: once the first window size has arrived, after every message the
\* viewport holds the cached lines with the cursor's line highlighted; the
\* tick that finds its content equal to lastContent and leaves the viewport
\* alone leaves it current.
C29_ViewportCurrent ==
  m.ready => m.viewport = renderTreeWithSelectionOptimized(m.treeLines, m.selectedLine).content

\* A tick ran after the cursor had been moved off the line lastContent was
\* rendered for and after another process had changed the directory: the
\* cursor's line is the highlighted one.
C29_Witness ==
  /\ m.ready /\ ev.kind = "tick"
  /\ m.selectedLine = 2 /\ used.external > 0
  /\ m.viewport[3].hl /\ ~m.viewport[1].hl
  /\ m.lastContent = m.viewport

(***************************************************************************)
(* The cursor keys.                                                        *)
(***************************************************************************)
\* What a cursor key leaves alone.
CursorFrame(old, r) ==
  /\ r.m.tree = old.tree /\ r.m.treeLines = old.treeLines /\ r.m.maxLine = old.maxLine
  /\ r.m.fileMap = old.fileMap /\ r.m.dirMap = old.dirMap
  /\ r.m.expandedDirs = old.expandedDirs /\ r.m.diffCache = old.diffCache
  /\ r.m.respectIgnore = old.respectIgnore /\ r.m.showHidden = old.showHidden
  /\ r.m.nestingEnabled = old.nestingEnabled
  /\ r.m.deletePending = old.deletePending /\ r.m.creatingMode = old.creatingMode
  /\ r.fs = fs /\ ~r.built /\ r.reads = NoReads /\ r.publish = NoWrites

\* C32: a line down or line up key that reaches the main key switch changes
\* only the cursor and the highlighted rendering: the cursor moves by at
\* most one line, a cursor within [0, maxLine] stays within it, the viewport
\* is the cached lines with the new line highlighted whenever the cursor
\* moved, and the tree, the position index, the expanded directories, the
\* change map and the policy flags are as before with nothing read.
C32_CursorKeys ==
  (m.ready /\ ~m.showStartup /\ m.creatingMode = "none") =>
    LET down == HandleKey(m, fs, git.status, "j", "")
        up == HandleKey(m, fs, git.status, "k", "")
        InBounds(mm) == 0 <= mm.selectedLine /\ mm.selectedLine <= mm.maxLine
    IN /\ CursorFrame(m, down) /\ CursorFrame(m, up)
       /\ down.m.selectedLine \in {m.selectedLine, m.selectedLine + 1}
       /\ up.m.selectedLine \in {m.selectedLine, m.selectedLine - 1}
       /\ InBounds(m) => InBounds(down.m) /\ InBounds(up.m)
       /\ InBounds(m) => (m.selectedLine < m.maxLine <=> down.m.selectedLine # m.selectedLine)
       /\ InBounds(m) => (m.selectedLine > 0 <=> up.m.selectedLine # m.selectedLine)
       /\ down.m.selectedLine # m.selectedLine =>
            down.m.viewport =
              renderTreeWithSelectionOptimized(m.treeLines, down.m.selectedLine).content
       /\ up.m.selectedLine # m.selectedLine =>
            up.m.viewport =
              renderTreeWithSelectionOptimized(m.treeLines, up.m.selectedLine).content

\* The cursor was moved to the last line, where line down does nothing and
\* line up moves: the viewport shows it highlighted, lastContent does not.
C32_Witness ==
  /\ m.ready /\ ~m.showStartup /\ m.creatingMode = "none"
  /\ ev.kind = "other" /\ m.maxLine > 1 /\ m.selectedLine = m.maxLine
  /\ m.viewport[m.selectedLine + 1].hl
  /\ m.lastContent # m.viewport

(***************************************************************************)
(* The highlighted rendering, line by line.                                *)
(***************************************************************************)
\* C40: for every cursor value the highlighted rendering has as many lines
\* as the cached tree and every line other than the cursor's is the cached
\* line as it is; the cursor's line is the cached line highlighted; for a
\* cursor below 0 or beyond the last line the rendering is the cached text
\* with no line altered.
C40_OnlyCursorLine ==
  \A c \in -2..(Len(m.treeLines) + 1) :
    LET out == renderTreeWithSelectionOptimized(m.treeLines, c).content
        n == Len(m.treeLines)
    IN /\ Len(out) = n
       /\ \A i \in (1..n) \ {c + 1} : out[i] = [line |-> m.treeLines[i], hl |-> FALSE]
       /\ (0 <= c /\ c < n) => out[c + 1] = Highlight(m.treeLines[c + 1])
       /\ (c < 0 \/ c >= n) => out = Joined(m.treeLines)

\* A tree of six lines is cached, annotated lines among them, with the
\* cursor on a line that is neither the first nor the last.
C40_Witness ==
  /\ m.ready /\ Len(m.treeLines) >= 6
  /\ m.selectedLine > 0 /\ m.selectedLine < m.maxLine
  /\ \E i \in 1..Len(m.treeLines) : IsAnnotation(m.treeLines[i].suffix)
  /\ m.viewport[m.selectedLine + 1] = Highlight(m.treeLines[m.selectedLine + 1])

(***************************************************************************)
(* Global nesting and the expanded directories.                            *)
(***************************************************************************)
\* C34: in every reachable state global nesting on implies that no
\* directory is recorded as expanded; while nesting is on the expand and
\* collapse keys change nothing; and from any state with nesting off,
\* toggling nesting on and off again gives the fully collapsed tree: no
\* expanded directory and only the root's children on display.
C34_NestingClearsExpansion ==
  /\ m.nestingEnabled => m.expandedDirs = {}
  /\ (m.ready /\ ~m.showStartup /\ m.creatingMode = "none") =>
       IF m.nestingEnabled
       THEN /\ HandleKey(m, fs, git.status, "l", "").m
                 = [m EXCEPT !.showHelp = FALSE, !.showViewer = FALSE]
            /\ HandleKey(m, fs, git.status, "h", "").m
                 = [m EXCEPT !.showHelp = FALSE, !.showViewer = FALSE]
       ELSE LET on == HandleKey(m, fs, git.status, "n", "").m
                off == HandleKey(on, fs, git.status, "n", "").m
            IN /\ on.nestingEnabled /\ on.expandedDirs = {}
               /\ ~off.nestingEnabled /\ off.expandedDirs = {}
               /\ \A p \in IndexedPaths(off) : Len(p) = 1

\* Nesting is on, the entries of the directories are on display and the
\* cursor is on a directory line, where the expand and collapse keys apply.
C34_Witness ==
  /\ m.ready /\ ~m.showStartup /\ m.nestingEnabled /\ m.expandedDirs = {}
  /\ \E p \in IndexedPaths(m) : Len(p) = 2
  /\ m.selectedLine \in DOMAIN m.dirMap

(***************************************************************************)
(* Collapsing a directory with expanded directories below it.              *)
(***************************************************************************)
\* C35: the collapse key on a directory line removes that directory's path
\* from the expanded directories and no other: the paths of expanded
\* directories below it, and of directories that no longer exist, stay, so
\* that expanding the directory again shows every directory below it that
\* was expanded with its entries.
C35_CollapseKeepsDescendants ==
  (/\ m.ready /\ ~m.showStartup /\ m.creatingMode = "none" /\ ~m.nestingEnabled
   /\ m.selectedLine \in DOMAIN m.dirMap) =>
    LET d == m.dirMap[m.selectedLine]
        c == HandleKey(m, fs, git.status, "h", "").m
    IN /\ c.expandedDirs = m.expandedDirs \ {d}
       /\ (c.selectedLine \in DOMAIN c.dirMap /\ c.dirMap[c.selectedLine] = d) =>
            LET e == HandleKey(c, fs, git.status, "l", "").m
            IN /\ e.expandedDirs = m.expandedDirs \cup {d}
               /\ \A x \in (m.expandedDirs \cup {d}) \cap Range(e.dirMap) :
                    ChildrenIndexed(e, x) = Listed(e, fs, x)

\* sub/ was collapsed while sub/sub/ below it was expanded: the path of
\* sub/sub/ is still recorded and none of its lines is on display.
C35_Witness ==
  /\ ev.kind = "collapse"
  /\ <<"sub", "sub">> \in m.expandedDirs /\ <<"sub">> \notin m.expandedDirs
  /\ <<"sub">> \in Range(m.dirMap) /\ <<"sub", "sub">> \notin IndexedPaths(m)
  /\ m.dirMap[m.selectedLine] = <<"sub">>

(***************************************************************************)
(* The cursor after expand and collapse.                                   *)
(***************************************************************************)
\* C33: an expand or collapse key applied to a directory line leaves the
\* cursor on that directory: if the directory is in the position index of
\* the rebuilt tree, the cursor is on the line dirAt gives it, also when
\* other processes changed the directory so that its line moved.
C33_CursorStaysOnDirectory ==
  (/\ m.ready /\ ~m.showStartup /\ m.creatingMode = "none" /\ ~m.nestingEnabled
   /\ m.selectedLine \in DOMAIN m.dirMap) =>
    \A k \in {"l", "h"} :
      LET d == m.dirMap[m.selectedLine]
          r == HandleKey(m, fs, git.status, k, "")
      IN /\ r.kind \in {"expand", "collapse"}
         /\ d \in Range(r.m.dirMap) =>
              /\ r.m.selectedLine \in DOMAIN r.m.dirMap
              /\ r.m.dirMap[r.m.selectedLine] = d
              /\ r.m.viewport[r.m.selectedLine + 1].line.name = Base(d)

\* sub/sub/ was expanded after another process had removed a.go above it:
\* its line moved up with the rebuild and the cursor is on it.
C33_Witness ==
  /\ ev.kind = "expand" /\ used.external > 0
  /\ ~Exists(fs, <<"a.go">>)
  /\ <<"sub", "sub">> \in m.expandedDirs
  /\ m.selectedLine \in DOMAIN m.dirMap
  /\ m.dirMap[m.selectedLine] = <<"sub", "sub">>
  /\ m.selectedLine = 3

(***************************************************************************)
(* What a deletion can be aimed at.                                        *)
(***************************************************************************)
\* C37: DeleteFile and DeleteDirectory are invoked only on the pending
\* target, which is never the watched directory itself; a target becomes
\* pending only as the path the position index had under the cursor at
\* that moment, a directory exactly if it came from dirAt; and with the
\* cursor on the root line key "d" opens no confirmation and changes
\* nothing.
C37_DeleteTargets ==
  [][/\ ev'.kind = "delete" =>
          /\ m.deletePending # NoDeletion
          /\ ev'.path = m.deletePending.path
          /\ ev'.path # Root /\ ev'.path # NoPath
          /\ m'.deletePending = NoDeletion
     /\ (m'.deletePending # NoDeletion /\ m'.deletePending # m.deletePending) =>
          /\ m'.deletePending.path = CursorPath(m)
          /\ m'.deletePending.path \in IndexedPaths(m)
          /\ m'.deletePending.path # Root
          /\ m'.deletePending.isDir <=> m'.deletePending.path \in Range(m.dirMap)
     /\ (m.ready /\ ~m.showStartup /\ m.creatingMode = "none" /\ m.selectedLine = 0) =>
          LET r == HandleKey(m, fs, git.status, "d", "")
          IN /\ r.m = [m EXCEPT !.showHelp = FALSE, !.showViewer = FALSE]
             /\ r.fs = fs /\ r.kind = "other"]_vars

\* The directory sub/ was deleted on confirmation, with what it held.
C37_Witness ==
  /\ ev.kind = "delete" /\ ~ev.err /\ ev.path = <<"sub">>
  /\ ~Exists(fs, <<"sub">>) /\ ~Exists(fs, <<"sub", "d.go">>)
  /\ m.deletePending = NoDeletion

(***************************************************************************)
(* The creation prompt.                                                    *)
(***************************************************************************)
\* What a key leaves alone while the prompt is open.
PromptFrame(old, r) ==
  /\ r.m.selectedLine = old.selectedLine
  /\ r.m.respectIgnore = old.respectIgnore /\ r.m.showHidden = old.showHidden
  /\ r.m.nestingEnabled = old.nestingEnabled
  /\ r.m.expandedDirs = old.expandedDirs
  /\ r.m.tree = old.tree /\ r.m.fileMap = old.fileMap /\ r.m.dirMap = old.dirMap
  /\ r.m.treeLines = old.treeLines /\ r.m.deletePending = old.deletePending
  /\ r.fs = fs /\ ~r.built /\ r.kind = "other"

\* C38: while the creation prompt is open every key but the confirmation
\* of a name that is not empty after trimming leaves the cursor, the policy
\* flags, the expanded directories and the tree as they are, with no
\* change of the filesystem and no rebuild; "esc", and "enter" on an empty
\* or blank name, close the prompt; any other key keeps it open.
C38_PromptFrame ==
  (m.ready /\ ~m.showStartup /\ m.creatingMode # "none") =>
    \A k \in Keys, text \in TypedValues :
      LET r == HandleKey(m, fs, git.status, k, text)
          confirms == k = "enter" /\ TrimSpace(m.textInput) # ""
      IN /\ ~confirms => PromptFrame(m, r)
         /\ (k = "esc" \/ (k = "enter" /\ ~confirms)) =>
              r.m.creatingMode = "none" /\ r.m.textInput = ""
         /\ k \notin {"esc", "enter"} =>
              r.m.creatingMode = m.creatingMode /\ r.m.textInput = text
         /\ confirms => r.kind = "create" /\ r.built /\ r.m.creatingMode = "none"

\* The prompt is open below the root line with a blank name typed.
C38_Witness ==
  /\ m.ready /\ m.creatingMode = "file" /\ m.textInput = " "
  /\ m.selectedLine > 0 /\ TrimSpace(m.textInput) = ""

(***************************************************************************)
(* Where a confirmed creation goes.                                        *)
(***************************************************************************)
\* C39 (as stated): the entry of a confirmed creation is a direct child of
\* the directory under the cursor when the cursor is on a directory line,
\* of the parent of the file when it is on a file line, and of the watched
\* directory when it is on the root line.
C39_CreatedInTarget ==
  [][ev'.kind = "create" =>
       /\ m.selectedLine \in DOMAIN m.dirMap => Dir(ev'.path) = m.dirMap[m.selectedLine]
       /\ m.selectedLine \in DOMAIN m.fileMap =>
            Dir(ev'.path) = Dir(m.fileMap[m.selectedLine])
       /\ m.selectedLine = 0 => Dir(ev'.path) = Root
       /\ ~ev'.err => Exists(fs', ev'.path)]_vars

(***************************************************************************)
(* CreateFile and CreateDirectory against other processes.                 *)
(***************************************************************************)
\* C36 (as stated): whatever other processes do between the existence check
\* and the create step, CreateFile and CreateDirectory fail on a target
\* that exists at the create step and leave it as it is: no file is
\* truncated or overwritten.
C36_NeverOverwrites ==
  [][(ev'.kind \in {"createFile", "createDirectory"} /\ Exists(fs, ev'.path))
     => (ev'.err /\ fs' = fs)]_vars

(***************************************************************************)
(* The timer.                                                              *)
(***************************************************************************)
\* C31: from the start exactly one tick is pending at any time; handling a
\* tick fetches the change map, rebuilds the tree and schedules the next
\* tick; no other message schedules or cancels one; and, the runtime being
\* fair to the timer, ticks are handled again and again whatever overlay
\* is on the screen.
C31_TickRecurs ==
  /\ [](timer = 1)
  /\ [][IF ev'.kind = "tick"
        THEN /\ m'.diffCache = GetAllGitDiffs(git.status)
             /\ m'.tree = Build(m', fs').tree
             /\ reads' = Build(m', fs').reads
        ELSE timer' = timer]_vars
  /\ []<>(ev.kind = "tick")
  /\ \A screen \in {"viewer", "creation", "delete", "help", "tree"} :
       []<>(View(m) # screen \/ ev.kind = "tick")

\* A tick was handled while the delete confirmation was on the screen, and
\* the next one is pending.
C31_Witness ==
  /\ ev.kind = "tick" /\ View(m) = "delete" /\ timer = 1
  /\ m.deletePending.path = <<"sub">>

====
